---- MODULE Spec2Model ----
(***************************************************************************)
(* pdf-signer: the signing pipeline (placeholder, detached CMS signature,  *)
(* RFC 3161 timestamp, OCSP, DSS) of the Express server with its           *)
(* tsa-helper / ltv-helper modules and of the inline Netlify function.     *)
(*                                                                         *)
(* A PDF buffer is a sequence of tokens.  A token stands for one           *)
(* fixed-width piece of the file text: a keyword, a number, an object      *)
(* header "n 0 obj", or one byte of the /Contents value (two hex digits).  *)
(* The keyword "startxref" is the two tokens "start" "xref", because the   *)
(* code searches for the text "xref" and finds it inside "startxref".      *)
(***************************************************************************)
EXTENDS Integers, Sequences, FiniteSets, TLC

\* ------------------------------------------------------------------ bounds
\* Bytes reserved for the /Contents value (signatureLength, scaled down).
PlaceholderLen == 10
\* Largest body of a TimeStampToken, in bytes.
MaxTokenLen == 5
\* Cap on the TSA requests of one signing request (the code sends at most 2).
MaxTsaRequests == 3
\* Last value of the millisecond clock.
MaxClock == 2
\* Successive embedDSS runs on one document.
MaxRuns == 2
\* Stream objects that stand before the one holding the DSS marker.
MaxStreamsBefore == 51
\* Successive timestamp embeddings on one CMS.
MaxEmbeds == 2
\* Longest PDF literal string given to decodePdfString.
MaxStrLen == 4

\* ------------------------------------------------------------------ tokens
Tok(k, n) == [k |-> k, n |-> n, d |-> <<>>]
\* One byte of DER, written as two hex digits inside /Contents <...>.
Hex(k, n, d) == [k |-> k, n |-> n, d |-> d]
HexKinds == {"00", "cms", "md", "sv", "ua", "attr", "oid",
             "tstHdr", "tst", "respHdr", "status", "junk"}
IsHex(t) == t.k \in HexKinds
Zero == Hex("00", 0, <<>>)

RECURSIVE Zeros(_)
Zeros(n) == IF n <= 0 THEN <<>> ELSE <<Zero>> \o Zeros(n - 1)

RECURSIVE Flatten(_)
Flatten(ss) == IF ss = <<>> THEN <<>> ELSE Head(ss) \o Flatten(Tail(ss))

\* The set is bound by a quantifier, so that it is evaluated once.
Max(S) == CHOOSE m \in {CHOOSE x \in T : \A y \in T : y <= x : T \in {S}} : TRUE
Min(S) == CHOOSE m \in {CHOOSE x \in T : \A y \in T : x <= y : T \in {S}} : TRUE

\* String.prototype.indexOf / lastIndexOf on one keyword; 0 when absent.
\* The positions of keyword k (the buffer is bound, so evaluated once).
Occurrences(buf, k) == UNION {{i \in 1..Len(b) : b[i].k = k} : b \in {buf}}
IndexOf(buf, k) ==
    LET S == Occurrences(buf, k) IN IF S = {} THEN 0 ELSE Min(S)
LastIndexOf(buf, k) ==
    LET S == Occurrences(buf, k) IN IF S = {} THEN 0 ELSE Max(S)
IsPrefix(s, t) == Len(s) <= Len(t) /\ SubSeq(t, 1, Len(s)) = s

\* ------------------------------------------------------------------ SHA-256
\* A collision-free digest: two inputs have the same digest iff they are equal.
Sha256(bytes) == bytes

\* ------------------------------------------------------------------ ASN.1 / DER
\* SignedData as far as the pipeline reads it: the message-digest signed
\* attribute, the signature value and the [1] unsignedAttrs elements of the
\* first SignerInfo (each a list of attributes).
OidTimeStampToken == 14

EncAttr(a) == <<Hex("attr", Len(a.body), <<>>), Hex("oid", a.oid, <<>>)>> \o a.body
EncUa(ua) == <<Hex("ua", Len(ua), <<>>)>> \o Flatten([i \in 1..Len(ua) |-> EncAttr(ua[i])])
EncBody(c) ==
    <<Hex("md", 0, c.md), Hex("sv", c.sv, <<>>)>>
        \o Flatten([i \in 1..Len(c.uas) |-> EncUa(c.uas[i])])
\* forge.asn1.toDer: the header carries the length of the whole value.
ToDer(c) == <<Hex("cms", 1 + Len(EncBody(c)), <<>>)>> \o EncBody(c)

DerFail == [ok |-> FALSE, v |-> <<>>, rest |-> <<>>]

RECURSIVE DecAttrs(_, _)
DecAttrs(u, count) ==
    IF count = 0 THEN [ok |-> TRUE, v |-> <<>>, rest |-> u]
    ELSE IF Len(u) < 2 THEN DerFail
    ELSE IF u[1].k # "attr" \/ u[2].k # "oid" \/ Len(u) < 2 + u[1].n THEN DerFail
    ELSE LET r == DecAttrs(SubSeq(u, 3 + u[1].n, Len(u)), count - 1) IN
         IF ~r.ok THEN DerFail
         ELSE [ok |-> TRUE,
               v |-> <<[oid |-> u[2].n, body |-> SubSeq(u, 3, 2 + u[1].n)]>> \o r.v,
               rest |-> r.rest]

RECURSIVE DecUas(_)
DecUas(u) ==
    IF u = <<>> THEN [ok |-> TRUE, v |-> <<>>, rest |-> <<>>]
    ELSE IF u[1].k # "ua" THEN DerFail
    ELSE LET a == DecAttrs(Tail(u), u[1].n) IN
         IF ~a.ok THEN DerFail
         ELSE LET r == DecUas(a.rest) IN
              IF ~r.ok THEN DerFail
              ELSE [ok |-> TRUE, v |-> <<a.v>> \o r.v, rest |-> <<>>]

\* forge.asn1.fromDer on the bytes of a CMS.  parseAll is forge's parseAllBytes
\* option: when set, bytes left after the value make the parse throw.
FromDer(bytes, parseAll) ==
    IF Len(bytes) < 3 THEN DerFail
    ELSE IF bytes[1].k # "cms" \/ bytes[1].n > Len(bytes) \/ bytes[1].n < 3 THEN DerFail
    ELSE LET L == bytes[1].n
             rest == SubSeq(bytes, L + 1, Len(bytes)) IN
         IF parseAll /\ rest # <<>> THEN DerFail
         ELSE IF bytes[2].k # "md" \/ bytes[3].k # "sv" THEN DerFail
         ELSE LET uas == DecUas(SubSeq(bytes, 4, L)) IN
              IF ~uas.ok THEN DerFail
              ELSE [ok |-> TRUE,
                    v |-> [md |-> bytes[2].d, sv |-> bytes[3].n, uas |-> uas.v],
                    rest |-> rest]

\* forge.asn1.fromDer on a value received from the TSA (a TimeStampToken or a
\* whole TimeStampResp): it parses iff the bytes are one DER value.
BlobParses(bytes, parseAll) ==
    /\ Len(bytes) >= 1
    /\ bytes[1].k \in {"tstHdr", "respHdr"}
    /\ bytes[1].n <= Len(bytes)
    /\ (parseAll => bytes[1].n = Len(bytes))
\* toDer(fromDer(bytes)): the value without what followed it.
BlobDer(bytes) == SubSeq(bytes, 1, bytes[1].n)

\* ------------------------------------------------------------------ input documents
\* What PDFDocument.save({useObjectStreams: false}) writes: objects in plain
\* text, then xref table, trailer and startxref.
DocPlain ==
    <<Tok("%PDF", 0),
      Tok("obj", 1), Tok("/Type/Catalog", 0), Tok("endobj", 0),
      Tok("obj", 2), Tok("/Type/Page", 0), Tok("/Contents", 0), Tok("ref", 3), Tok("endobj", 0),
      Tok("xref", 0), Tok("trailer", 0), Tok("start", 0), Tok("xref", 0), Tok("%%EOF", 0)>>
DocTwoPages ==
    <<Tok("%PDF", 0),
      Tok("obj", 1), Tok("/Type/Page", 0), Tok("endobj", 0),
      Tok("obj", 2), Tok("/Type/Page", 0), Tok("endobj", 0),
      Tok("obj", 4), Tok("/Type/Catalog", 0), Tok("endobj", 0),
      Tok("xref", 0), Tok("trailer", 0), Tok("start", 0), Tok("xref", 0), Tok("%%EOF", 0)>>
\* An upload that pdf-lib could not load (used as it is) and that has no trailer.
DocBroken == <<Tok("%PDF", 0), Tok("obj", 1), Tok("/Type/Catalog", 0), Tok("endobj", 0)>>
Docs == {DocPlain, DocTwoPages, DocBroken}

\* ------------------------------------------------------------------ node-signpdf
\* getNextObjectNumber: the regex (\d+)\s+0\s+obj, highest match plus one.
getNextObjectNumber(pdfText) ==
    LET S == {pdfText[i].n : i \in {j \in 1..Len(pdfText) : pdfText[j].k = "obj"}} IN
    IF S = {} THEN 1 ELSE Max(S) + 1

Threw == [threw |-> TRUE, pdf |-> <<>>]
Returned(pdf) == [threw |-> FALSE, pdf |-> pdf]

\* plainAddPlaceholder({pdfBuffer, reason, location, signatureLength}): appends
\* the signature dictionary with a /ByteRange placeholder and a zero-filled
\* /Contents of signatureLength bytes, the widget, a copy of the root with
\* /AcroForm, and a new xref, trailer and startxref.
plainAddPlaceholder(pdfBuffer, signatureLength) ==
    IF IndexOf(pdfBuffer, "trailer") = 0 \/ IndexOf(pdfBuffer, "/Type/Catalog") = 0
    THEN Threw
    ELSE LET n == getNextObjectNumber(pdfBuffer)
             root == pdfBuffer[IndexOf(pdfBuffer, "/Type/Catalog") - 1].n IN
         Returned(pdfBuffer \o
            <<Tok("obj", n), Tok("/Type/Sig", 0), Tok("/ByteRange", 0),
              Tok("num", 0), Tok("ph", 0), Tok("ph", 0), Tok("ph", 0),
              Tok("/Contents", 0), Tok("<", 0)>> \o Zeros(signatureLength) \o
            <<Tok(">", 0), Tok("endobj", 0),
              Tok("obj", n + 1), Tok("/FT/Sig", 0), Tok("endobj", 0),
              Tok("obj", root), Tok("/Type/Catalog", 0), Tok("/AcroForm", n + 2), Tok("endobj", 0),
              Tok("xref", 0), Tok("trailer", 0), Tok("start", 0), Tok("xref", 0), Tok("%%EOF", 0)>>)

\* The four numbers after the first /ByteRange, or <<>> when the text
\* /ByteRange [d d d d] does not occur.
ByteRangeOf(pdf) ==
    LET S == {i \in 1..Len(pdf) :
                /\ pdf[i].k = "/ByteRange"
                /\ i + 4 <= Len(pdf)
                /\ \A j \in 1..4 : pdf[i + j].k = "num"} IN
    IF S = {} THEN <<>> ELSE [j \in 1..4 |-> pdf[Min(S) + j].n]

\* The bytes the ByteRange names in a buffer (offsets count from 0).
RangeBytes(pdf, br) ==
    SubSeq(pdf, br[1] + 1, br[1] + br[2]) \o SubSeq(pdf, br[3] + 1, br[3] + br[4])

\* The signature value the private key gives for the signed attributes.
SignatureValue == 1

\* pdf.indexOf('/ByteRange [0 /********** /********** /**********]'): the
\* placeholder plainAddPlaceholder wrote, 0 when there is none.
ByteRangePlaceholderPos(pdf) ==
    LET S == {i \in Occurrences(pdf, "/ByteRange") :
                /\ i + 4 <= Len(pdf)
                /\ pdf[i + 1].k = "num"
                /\ \A j \in 2..4 : pdf[i + j].k = "ph"} IN
    IF S = {} THEN 0 ELSE Min(S)

\* signer.sign(pdf, p12Buffer, {passphrase}): parses the PKCS#12, fixes the ByteRange around the
\* /Contents value, digests the rest, builds the detached SignedData and writes
\* it into the placeholder, zero-padded to the placeholder's width.
signerSign(pdf, p12) ==
    LET br == ByteRangePlaceholderPos(pdf)
        lts == {i \in (br + 1)..Len(pdf) : pdf[i].k = "<"} IN
    IF p12.kind # "valid" \/ br = 0 \/ lts = {} THEN Threw
    ELSE LET lt == Min(lts)
             gt == Min({i \in (lt + 1)..Len(pdf) : pdf[i].k = ">"})
             placeholderLength == gt - lt - 1
             byteRange == <<0, lt - 1, gt, Len(pdf) - gt>>
             pdf1 == SubSeq(pdf, 1, br) \o [j \in 1..4 |-> Tok("num", byteRange[j])]
                        \o SubSeq(pdf, br + 5, Len(pdf))
             raw == ToDer([md |-> Sha256(RangeBytes(pdf1, byteRange)),
                           sv |-> SignatureValue, uas |-> <<>>]) IN
         IF Len(raw) > placeholderLength THEN Threw
         ELSE Returned(SubSeq(pdf1, 1, lt) \o raw \o Zeros(placeholderLength - Len(raw))
                          \o SubSeq(pdf1, gt, Len(pdf1)))

\* ------------------------------------------------------------------ tsa-helper
HexLen(bytes) == 2 * Len(bytes)

\* Index of the "/Contents" of the first match of /\/Contents\s*<([0-9a-fA-F]+)>/,
\* 0 when there is none.  HexRun is the matched group as bytes.
HexRunEnd(pdf, i) == Min({j \in (i + 2)..(Len(pdf) + 1) : j > Len(pdf) \/ ~IsHex(pdf[j])})
ContentsMatch(pdf) ==
    LET S == {i \in 1..Len(pdf) :
                /\ pdf[i].k = "/Contents"
                /\ i + 3 <= Len(pdf)
                /\ pdf[i + 1].k = "<"
                /\ IsHex(pdf[i + 2])
                /\ HexRunEnd(pdf, i) <= Len(pdf)
                /\ pdf[HexRunEnd(pdf, i)].k = ">"} IN
    IF S = {} THEN 0 ELSE Min(S)
HexRun(pdf, i) == SubSeq(pdf, i + 2, HexRunEnd(pdf, i) - 1)

\* extractSignatureFromPDF: null unless both regexes match.
extractSignatureFromPDF(pdfBuffer) ==
    IF ByteRangeOf(pdfBuffer) = <<>> \/ ContentsMatch(pdfBuffer) = 0
    THEN [found |-> FALSE, signature |-> <<>>, byteRange |-> <<>>]
    ELSE [found |-> TRUE,
          signature |-> HexRun(pdfBuffer, ContentsMatch(pdfBuffer)),
          byteRange |-> ByteRangeOf(pdfBuffer)]

\* The positions where the literal text `/Contents <${old}>` occurs.
LiteralMatches(pdf, old) ==
    UNION {{i \in 1..Len(p) :
                /\ p[i].k = "/Contents"
                /\ i + 2 + Len(o) <= Len(p)
                /\ p[i + 1].k = "<"
                /\ SubSeq(p, i + 2, i + 1 + Len(o)) = o
                /\ p[i + 2 + Len(o)].k = ">"} : p \in {pdf}, o \in {old}}
\* pdfText.replace(`/Contents <${old}>`, `/Contents <${new}>`): the first
\* occurrence of the literal text, nothing when it does not occur.
ReplaceContents(pdf, old, new) ==
    LET S == LiteralMatches(pdf, old) IN
    IF S = {} THEN pdf
    ELSE SubSeq(pdf, 1, Min(S) + 1) \o new \o SubSeq(pdf, Min(S) + 2 + Len(old), Len(pdf))

\* padEnd(width, '0'): pads, never truncates.
PadEnd(bytes, width) == bytes \o Zeros(width - Len(bytes))

\* replaceSignatureInPDF of the tsa-helper.
replaceSignatureInPDF(pdfBuffer, oldSignature, newSignature) ==
    IF HexLen(newSignature) > HexLen(oldSignature) THEN pdfBuffer
    ELSE ReplaceContents(pdfBuffer, oldSignature, PadEnd(newSignature, Len(oldSignature)))

\* replaceSignatureInPDF of the Netlify function.
replaceSignatureInPDFInline(pdfBuffer, oldSignature, newSignature) ==
    ReplaceContents(pdfBuffer, oldSignature, PadEnd(newSignature, Len(oldSignature)))

\* What a TSA can answer with status 200: a TimeStampResp with status
\* granted (0) and a token of t body bytes, one with an error status and no
\* token, one with status granted and no token, or bytes that are not DER.
Granted(t) ==
    <<Hex("respHdr", 3 + t, <<>>), Hex("status", 0, <<>>), Hex("tstHdr", 1 + t, <<>>)>>
        \o [i \in 1..t |-> Hex("tst", i, <<>>)]
Rejected == <<Hex("respHdr", 2, <<>>), Hex("status", 2, <<>>)>>
GrantedNoToken == <<Hex("respHdr", 2, <<>>), Hex("status", 0, <<>>)>>
Junk == <<Hex("junk", 0, <<>>)>>
TsaResponses == {Granted(t) : t \in 1..MaxTokenLen} \cup {Rejected, GrantedNoToken, Junk}

PrimaryTsa == "http://freetsa.org/tsr"
AlternateTsa == "http://timestamp.digicert.com"

\* requestTimestamp, the catch block: a failed request is retried against the
\* alternate server only when it was sent to the primary one.
RetryAlways(tsaUrl) == TRUE
ShouldRetry(tsaUrl) == tsaUrl = PrimaryTsa

\* requestTimestamp of the tsa-helper, from a 200 response on: the token
\* (value[1]) of a response with status 0; on any parsing issue the raw response.
requestTimestampParse(responseBuffer) ==
    IF ~BlobParses(responseBuffer, TRUE) THEN responseBuffer
    ELSE IF responseBuffer[2].n # 0 THEN responseBuffer
    ELSE IF responseBuffer[1].n > 2 THEN SubSeq(responseBuffer, 3, responseBuffer[1].n)
    ELSE responseBuffer
\* requestTimestamp of the Netlify function: Buffer.from(response.data).
requestTimestampParseInline(responseBuffer) == responseBuffer

\* signerInfo.value.find(v => v.tagClass === CONTEXT_SPECIFIC && v.type === 1):
\* index of the first [1] element, 0 when there is none.
FindUnsignedAttrs(uas) == IF uas = <<>> THEN 0 ELSE 1
\* signerInfo.value.find(v => v.tagClass === 0 && v.type === 1): a UNIVERSAL
\* BOOLEAN, which a SignerInfo never holds.
FindUnsignedAttrsInline(uas) == 0

TimestampAttr(token) == [oid |-> OidTimeStampToken, body |-> BlobDer(token)]

\* embedTimestampInSignature of the tsa-helper: the CMS with the attribute, or
\* the given bytes when anything fails.
embedTimestampInSignature(cmsSignature, timestampToken, parseAll) ==
    LET c == FromDer(cmsSignature, parseAll) IN
    IF timestampToken = <<>> THEN cmsSignature
    ELSE IF ~c.ok \/ ~BlobParses(timestampToken, parseAll) THEN cmsSignature
    ELSE LET at == FindUnsignedAttrs(c.v.uas)
             uas == IF at = 0 THEN Append(c.v.uas, <<TimestampAttr(timestampToken)>>)
                    ELSE [c.v.uas EXCEPT ![at] = Append(@, TimestampAttr(timestampToken))] IN
         ToDer([c.v EXCEPT !.uas = uas])

\* The messageImprint of the TimeStampReq: addTimestampToPDF passes
\* extracted.signature (the bytes of the /Contents value) to requestTimestamp,
\* which hashes what it is given.
MessageImprint(signedPdf) == Sha256(extractSignatureFromPDF(signedPdf).signature)

\* addTimestampToPDF of the tsa-helper once the TSA has answered.
addTimestampToPDF(signedPdf, responseBuffer, parseAll) ==
    LET extracted == extractSignatureFromPDF(signedPdf) IN
    IF ~extracted.found THEN signedPdf
    ELSE replaceSignatureInPDF(signedPdf, extracted.signature,
            embedTimestampInSignature(extracted.signature,
                                      requestTimestampParse(responseBuffer), parseAll))

\* Lines 67-88 of addTimestampToPDF of the Netlify function: the CMS with the
\* attribute; a failing parse throws.
embedTimestampInline(cmsSignature, token, parseAll) ==
    LET c == FromDer(cmsSignature, parseAll) IN
    IF ~c.ok \/ ~BlobParses(token, parseAll) THEN Threw
    ELSE LET at == FindUnsignedAttrsInline(c.v.uas)
             uas == IF at = 0 THEN Append(c.v.uas, <<TimestampAttr(token)>>)
                    ELSE [c.v.uas EXCEPT ![at] = Append(@, TimestampAttr(token))] IN
         Returned(ToDer([c.v EXCEPT !.uas = uas]))

\* addTimestampToPDF of the Netlify function once the TSA has answered: it has
\* no try/catch, what throws inside throws to the handler.
addTimestampToPDFInline(signedPdf, responseBuffer, parseAll) ==
    LET extracted == extractSignatureFromPDF(signedPdf)
        newSignature == embedTimestampInline(extracted.signature,
                            requestTimestampParseInline(responseBuffer), parseAll) IN
    IF ~extracted.found THEN Threw
    ELSE IF newSignature.threw THEN Threw
    ELSE Returned(replaceSignatureInPDFInline(signedPdf, extracted.signature, newSignature.pdf))

\* The catch around the timestamp step (in addTimestampToPDF of the tsa-helper,
\* in the handler of the Netlify function): log and continue with the buffer
\* signer.sign returned.
TimestampRethrow(signedPdf) == [fatal |-> TRUE, pdf |-> signedPdf]
TimestampCatch(signedPdf) == [fatal |-> FALSE, pdf |-> signedPdf]

\* Step 5 of the Express handler.  failed: both TSA requests failed, and
\* addTimestampToPDF caught the error and returned signedPdf.
TsaStepExpress(signedPdf, failed, responseBuffer, parseAll) ==
    LET newSignedPdf == IF failed THEN TimestampCatch(signedPdf).pdf
                        ELSE addTimestampToPDF(signedPdf, responseBuffer, parseAll) IN
    [fatal |-> IF failed THEN TimestampCatch(signedPdf).fatal ELSE FALSE,
     pdf |-> IF Len(newSignedPdf) > 0 THEN newSignedPdf ELSE signedPdf]

\* The TSA step of the Netlify handler.
TsaStepNetlify(signedPdf, failed, responseBuffer, parseAll) ==
    LET r == IF failed THEN Threw
             ELSE addTimestampToPDFInline(signedPdf, responseBuffer, parseAll) IN
    IF r.threw THEN TimestampCatch(signedPdf) ELSE [fatal |-> FALSE, pdf |-> r.pdf]

\* ------------------------------------------------------------------ checkPdfSignature
\* zlib.deflateSync / zlib.inflateSync: the compressed bytes of a text are one
\* token that holds the text; bytes that are not a zlib stream make inflate throw.
Deflate(text) == <<[k |-> "deflate", n |-> Len(text), d |-> text]>>
InflateThrows(bytes) == Len(bytes) # 1 \/ bytes[1].k # "deflate"
Inflate(bytes) == bytes[1].d

\* while (... && streamCount < 50)
StreamScanLimit == 50

\* /\/Type\s*\/Sig|\/FT\s*\/Sig|\/SubFilter\s*\/adbe\.pkcs7/i
SubFilterOnly(pdfText) == IndexOf(pdfText, "/SubFilter/adbe.pkcs7") # 0
HasSigMarker(pdfText) ==
    \/ IndexOf(pdfText, "/Type/Sig") # 0
    \/ IndexOf(pdfText, "/FT/Sig") # 0
    \/ IndexOf(pdfText, "/SubFilter/adbe.pkcs7") # 0
\* /\/Type\s*\/DSS|\/DSS\s+\d+\s+0\s+R/i
HasDssMarker(text) == IndexOf(text, "/Type/DSS") # 0 \/ IndexOf(text, "/DSS") # 0

\* The matches of /(\d+\s+0\s+obj\s*<<[^>]*>>)\s*stream\s*\n([\s\S]*?)\s*endstream/g
\* in file order, each as [header, content]: an object header of generation
\* 0, its dictionary, the keyword stream, and the text up to the next
\* endstream.
DictEntry(t) == t.k \notin {"obj", "objg", "endobj", "stream", "endstream", "<", ">", "data",
                            "deflate", "xref", "trailer", "start", "%PDF", "%%EOF"}
StreamAt(pdfText, i) ==
    /\ pdfText[i].k = "stream"
    /\ \E h \in 1..(i - 1) :
          /\ pdfText[h].k = "obj"
          /\ \A j \in (h + 1)..(i - 1) : DictEntry(pdfText[j])
    /\ \E e \in (i + 1)..Len(pdfText) : pdfText[e].k = "endstream"
StreamHeader(pdfText, i) ==
    LET h == Max({j \in 1..(i - 1) : pdfText[j].k = "obj"}) IN SubSeq(pdfText, h, i - 1)
StreamContent(pdfText, i) ==
    LET e == Min({j \in (i + 1)..Len(pdfText) : pdfText[j].k = "endstream"}) IN
    SubSeq(pdfText, i + 1, e - 1)
StreamPositions(pdfText) == {i \in 1..Len(pdfText) : StreamAt(pdfText, i)}
StreamMatches(pdfText) ==
    LET S == StreamPositions(pdfText) IN
    [c \in 1..Cardinality(S) |->
        LET i == CHOOSE x \in S : Cardinality({j \in S : j < x}) = c - 1 IN
        [header |-> StreamHeader(pdfText, i), content |-> StreamContent(pdfText, i)]]

\* Step 3 of the LTV detection: the streams the loop looks at (the first
\* StreamScanLimit matches), inflated when the header has /Filter /FlateDecode.
StreamHasDss(m) ==
    IF IndexOf(m.header, "/Filter/FlateDecode") # 0
    THEN ~InflateThrows(m.content) /\ HasDssMarker(Inflate(m.content))
    ELSE HasDssMarker(m.content)
\* The scan without the inner try/catch: a stream that fails to inflate ends it.
ScanStreamsAbort(pdfText) ==
    LET ms == StreamMatches(pdfText) IN
    \E c \in 1..Len(ms) :
        /\ c <= StreamScanLimit /\ StreamHasDss(ms[c])
        /\ \A d \in 1..(c - 1) :
              ~(IndexOf(ms[d].header, "/Filter/FlateDecode") # 0 /\ InflateThrows(ms[d].content))
ScanStreams(pdfText) ==
    LET ms == StreamMatches(pdfText) IN
    \E c \in 1..Len(ms) : c <= StreamScanLimit /\ StreamHasDss(ms[c])

\* checkPdfSignature, the fields hasSig and hasLTV (hasLTV is absent, here
\* FALSE, when hasSig is false).
checkPdfSignature(pdfBuffer) ==
    IF ~HasSigMarker(pdfBuffer) THEN [hasSig |-> FALSE, hasLTV |-> FALSE]
    ELSE [hasSig |-> TRUE,
          hasLTV |-> \/ IndexOf(pdfBuffer, "/DSS") # 0
                     \/ IndexOf(pdfBuffer, "/Type/DSS") # 0
                     \/ ScanStreams(pdfBuffer)
                     \/ IndexOf(pdfBuffer, "/Type/VRI") # 0]

\* ------------------------------------------------------------------ certificates
\* A certificate as far as the pipeline reads it: subject CN, issuer CN, the
\* OCSP access location of its Authority Information Access extension ("none",
\* "uri": a GeneralName [6] holding an http URI, "ia5": a UNIVERSAL IA5String
\* holding one, "ldap": a GeneralName [6] holding an ldap URI) and the size of
\* its DER encoding.
SelfSigned == [id |-> 1, cn |-> "Test", icn |-> "Test", aia |-> "none", der |-> 3]
Leaf(aia) == [id |-> 2, cn |-> "Alice", icn |-> "CA", aia |-> aia, der |-> 4]
Issuer == [id |-> 3, cn |-> "CA", icn |-> "CA", aia |-> "none", der |-> 5]
Chains == {<<SelfSigned>>, <<SelfSigned, Issuer>>, <<Leaf("uri")>>,
           <<Leaf("none"), Issuer>>, <<Leaf("uri"), Issuer>>, <<Leaf("ia5"), Issuer>>,
           <<Leaf("ldap"), Issuer>>}
OcspResponse == [id |-> 9, der |-> 2]

\* A getOCSPUrl that takes every certificate to have a responder.
getOCSPUrlAny(cert) == TRUE
\* getOCSPUrl of the ltv-helper: the access location of the OCSP access method
\* when it is a string that starts with http.
getOCSPUrl(cert) == cert.aia \in {"uri", "ia5"}
\* getOCSPUrl of the Netlify function: item.value[1]?.type === IA5STRING.
getOCSPUrlInline(cert) == cert.aia = "ia5"

\* The answers to an OCSP request: status 200 with a response, a 2xx status
\* other than 200, or a failure (unreachable, timeout, status outside 2xx:
\* axios.post rejects).
OcspOutcomes == {"ok", "non200", "fail"}

\* requestOCSP of the ltv-helper: every failure is caught and gives null.
requestOCSP(cert, outcome) ==
    IF ~getOCSPUrl(cert) THEN [threw |-> FALSE, sent |-> FALSE, resp |-> <<>>]
    ELSE IF outcome = "ok" THEN [threw |-> FALSE, sent |-> TRUE, resp |-> <<OcspResponse>>]
    ELSE [threw |-> FALSE, sent |-> TRUE, resp |-> <<>>]
\* requestOCSP of the Netlify function: no try/catch around axios.post.
requestOCSPInline(cert, outcome) ==
    IF ~getOCSPUrlInline(cert) THEN [threw |-> FALSE, sent |-> FALSE, resp |-> <<>>]
    ELSE IF outcome = "ok" THEN [threw |-> FALSE, sent |-> TRUE, resp |-> <<OcspResponse>>]
    ELSE IF outcome = "non200" THEN [threw |-> FALSE, sent |-> TRUE, resp |-> <<>>]
    ELSE [threw |-> TRUE, sent |-> TRUE, resp |-> <<>>]

\* ------------------------------------------------------------------ DSS
Base64Len(n) == 4 * ((n + 2) \div 3)
Data(x) == [k |-> "data", n |-> Base64Len(x.der), d |-> <<Tok("der", x.id)>>]

\* "n 0 obj << /Length len >> stream <base64> endstream endobj"
StreamObj(n, len, x) ==
    <<Tok("obj", n), Tok("/Length", len), Tok("stream", 0), Data(x),
      Tok("endstream", 0), Tok("endobj", 0)>>
\* "n 0 obj [ a 0 R b 0 R ] endobj", the references being first..first+count-1
ArrayObj(n, first, count) ==
    <<Tok("obj", n), Tok("[", 0)>> \o [i \in 1..count |-> Tok("ref", first + i - 1)]
        \o <<Tok("]", 0), Tok("endobj", 0)>>
\* A DSS dictionary written without its /Type entry.
DssDictUntyped(n, ocspObjNum, certObjNum) ==
    <<Tok("obj", n)>>
        \o (IF ocspObjNum # 0 THEN <<Tok("/OCSPs", ocspObjNum)>> ELSE <<>>)
        \o (IF certObjNum # 0 THEN <<Tok("/Certs", certObjNum)>> ELSE <<>>)
        \o <<Tok("endobj", 0)>>
\* "n 0 obj << /Type /DSS /OCSPs a 0 R /Certs b 0 R >> endobj"; 0: entry absent
DssDict(n, ocspObjNum, certObjNum) ==
    <<Tok("obj", n), Tok("/Type/DSS", 0)>>
        \o (IF ocspObjNum # 0 THEN <<Tok("/OCSPs", ocspObjNum)>> ELSE <<>>)
        \o (IF certObjNum # 0 THEN <<Tok("/Certs", certObjNum)>> ELSE <<>>)
        \o <<Tok("endobj", 0)>>

\* The objects embedDSS builds from object number first on.  rawLength: the
\* /Length written is the length of the DER bytes instead of the base64 text.
DssObjects(first, ocspResponses, certs, rawLength) ==
    LET no == Len(ocspResponses)
        nc == Len(certs)
        len(x) == IF rawLength THEN x.der ELSE Base64Len(x.der)
        ocspArr == IF no > 0 THEN first + no ELSE 0
        cfirst == IF no > 0 THEN first + no + 1 ELSE first
        certArr == IF nc > 0 THEN cfirst + nc ELSE 0
        dssNum == IF nc > 0 THEN cfirst + nc + 1 ELSE cfirst IN
    [dssNum |-> dssNum,
     text |->
        Flatten([i \in 1..no |-> StreamObj(first + i - 1, len(ocspResponses[i]), ocspResponses[i])])
        \o (IF no > 0 THEN ArrayObj(ocspArr, first, no) ELSE <<>>)
        \o Flatten([i \in 1..nc |-> StreamObj(cfirst + i - 1, len(certs[i]), certs[i])])
        \o (IF nc > 0 THEN ArrayObj(certArr, cfirst, nc) ELSE <<>>)
        \o DssDict(dssNum, ocspArr, certArr)]

\* pdfText.replace(/\/Type\s*\/Catalog/, `/Type /Catalog /DSS ${dssNum} 0 R`)
PatchCatalog(pdfText, dssNum) ==
    LET i == IndexOf(pdfText, "/Type/Catalog") IN
    IF i = 0 THEN pdfText
    ELSE SubSeq(pdfText, 1, i) \o <<Tok("/DSS", dssNum)>> \o SubSeq(pdfText, i + 1, Len(pdfText))

InsertAt(pdfText, xrefIndex, text) ==
    SubSeq(pdfText, 1, xrefIndex - 1) \o text \o SubSeq(pdfText, xrefIndex, Len(pdfText))

\* What embedDSS of the ltv-helper returns when it gives up on a buffer in which
\* it has already patched the Catalog.
GiveUpPatched(pdfBuffer, pdfText) == pdfText
GiveUp(pdfBuffer, pdfText) == pdfBuffer

\* embedDSS of the ltv-helper.  encodeThrows: certificateToAsn1 throws.
embedDSS(pdfBuffer, ocspResponses, certs, encodeThrows) ==
    LET dss == DssObjects(getNextObjectNumber(pdfBuffer), ocspResponses, certs, FALSE)
        catalogUpdated == PatchCatalog(pdfBuffer, dss.dssNum)
        xrefIndex == LastIndexOf(catalogUpdated, "xref") IN
    IF encodeThrows /\ Len(certs) > 0 THEN pdfBuffer
    ELSE IF catalogUpdated = pdfBuffer THEN pdfBuffer
    ELSE IF xrefIndex = 0 THEN GiveUp(pdfBuffer, catalogUpdated)
    ELSE InsertAt(catalogUpdated, xrefIndex, dss.text)

\* embedDSS of the Netlify function: no Catalog patch, no try/catch.
embedDSSInline(pdfBuffer, ocspResponses, certs, encodeThrows) ==
    LET dss == DssObjects(getNextObjectNumber(pdfBuffer), ocspResponses, certs, TRUE)
        xrefIndex == LastIndexOf(pdfBuffer, "xref") IN
    IF encodeThrows /\ Len(certs) > 0 THEN Threw
    ELSE IF xrefIndex = 0 THEN Returned(pdfBuffer)
    ELSE Returned(InsertAt(pdfBuffer, xrefIndex, dss.text))

\* ------------------------------------------------------------------ PKCS#12
\* The uploaded container with the password given: it decrypts and holds the
\* chain, the password is wrong, the bytes are not a PKCS#12, or it holds no
\* certificate bag.
P12s == {[kind |-> "valid", chain |-> c] : c \in Chains}
            \cup {[kind |-> k, chain |-> <<>>] : k \in {"badPassword", "corrupt", "noCertBag"}}

\* parseP12Certificate without the check of the certificate bags.
parseP12CertificateUnchecked(p12) == [threw |-> FALSE, success |-> TRUE, error |-> ""]
\* parseP12Certificate: forge throws on a wrong password and on corrupt bytes,
\* the function itself throws when there is no certificate bag, and its catch
\* turns every error into {success: false, error}.
parseP12Certificate(p12) ==
    IF p12.kind \in {"badPassword", "corrupt"}
    THEN [threw |-> FALSE, success |-> FALSE, error |-> p12.kind]
    ELSE IF Len(p12.chain) = 0
    THEN [threw |-> FALSE, success |-> FALSE, error |-> "No certificate found in P12 file"]
    ELSE [threw |-> FALSE, success |-> TRUE, error |-> ""]

\* ------------------------------------------------------------------ LTV step
IsSelfSigned(cert) == cert.cn = cert.icn
NoLtv(signedPdf) ==
    [pdf |-> signedPdf, sent |-> FALSE, called |-> FALSE, threw |-> FALSE, out |-> <<>>,
     ocsp |-> <<>>, certs |-> <<>>]

\* Step 6 of the Express handler; outcome is the answer to the OCSP request
\* if one is sent.  requestOCSP and embedDSS of the ltv-helper never throw.
LtvStepExpress(signedPdf, certChain, outcome, encodeThrows) ==
    IF Len(certChain) < 1 THEN NoLtv(signedPdf)
    ELSE IF IsSelfSigned(certChain[1]) \/ Len(certChain) = 1
    THEN LET out == embedDSS(signedPdf, <<>>, certChain, encodeThrows) IN
         [pdf |-> out, sent |-> FALSE, called |-> TRUE, threw |-> FALSE, out |-> out,
          ocsp |-> <<>>, certs |-> certChain]
    ELSE LET o == requestOCSP(certChain[1], outcome)
             out == embedDSS(signedPdf, o.resp, certChain, encodeThrows) IN
         [pdf |-> out, sent |-> o.sent, called |-> TRUE, threw |-> FALSE, out |-> out,
          ocsp |-> o.resp, certs |-> certChain]

\* The LTV step of the Netlify handler: whatever throws inside is caught by the
\* handler, which continues with the buffer it had.
LtvStepNetlify(signedPdf, certs, outcome, encodeThrows) ==
    IF Len(certs) < 1 THEN NoLtv(signedPdf)
    ELSE IF IsSelfSigned(certs[1]) \/ Len(certs) = 1
    THEN LET r == embedDSSInline(signedPdf, <<>>, certs, encodeThrows) IN
         [pdf |-> IF r.threw THEN signedPdf ELSE r.pdf, sent |-> FALSE, called |-> TRUE,
          threw |-> r.threw, out |-> r.pdf, ocsp |-> <<>>, certs |-> certs]
    ELSE LET o == requestOCSPInline(certs[1], outcome)
             r == embedDSSInline(signedPdf, o.resp, certs, encodeThrows) IN
         IF o.threw THEN [NoLtv(signedPdf) EXCEPT !.sent = o.sent, !.threw = TRUE]
         ELSE [pdf |-> IF r.threw THEN signedPdf ELSE r.pdf, sent |-> o.sent, called |-> TRUE,
               threw |-> r.threw, out |-> r.pdf, ocsp |-> o.resp, certs |-> certs]

\* ------------------------------------------------------------------ one signing request
VARIABLES
    variant,        \* "express": server with tsa-helper and ltv-helper; "netlify": inline
    parseAll,       \* whether the installed forge rejects bytes after a DER value
    p12,            \* the uploaded container
    doc,            \* the flattened PDF
    pc,             \* the handler's position
    steps,          \* the stages run so far
    certInfo,       \* result of parseP12Certificate
    placeholderPdf, \* result of plainAddPlaceholder
    signedOrig,     \* result of signer.sign
    signedPdf,      \* the handler's signedPdf variable
    tsaUrl,         \* the tsaUrl argument of the running requestTimestamp
    tsaLog,         \* TSA requests sent: [url, ok, imprint]
    tsaResp,        \* the 200 response received, <<>> when none
    tsaOut,         \* the buffer the handler holds after the timestamp step
    ltv,            \* what the LTV step did: the handler's buffer after it (pdf),
                    \* whether an OCSP request was sent, whether embedDSS was called,
                    \* with which arguments (ocsp, certs), what it returned (out) and
                    \* whether the step threw to the handler's catch
    encodeFails,    \* whether certificateToAsn1 threw in the LTV step
    ocspOutcome,    \* answer to the OCSP request, "none" when none was sent
    response,       \* the answer to the request
    now,            \* Date.now() of the Express server's process
    disk,           \* uploads/signed-<t>.pdf for every t: [exists, data]
    reqs,           \* the requests the Express server is handling at the same time
    route,          \* the Express route of the request whose files are followed
    uploads,        \* the files of that request that exist in uploads/
    signatureMode,  \* frontend state: 'digitalOnly' | 'visual'
    visualSignature,  \* frontend state: the chosen appearance, its type and whether it has content
    overlaySignature, \* frontend state: the appearance placed on the page, or null
    placing,        \* the drops and touches whose asynchronous part has not finished
    forms           \* the FormData objects handleSignPdf has posted

pipeline == <<variant, parseAll, p12, doc, pc, steps, certInfo, placeholderPdf, signedOrig,
              signedPdf, tsaUrl, tsaLog, tsaResp, tsaOut, ltv, encodeFails, ocspOutcome,
              response>>
files == <<route, uploads>>
frontend == <<signatureMode, visualSignature, overlaySignature, placing, forms>>
conc == <<now, disk, reqs, files, frontend>>
vars == <<pipeline, conc>>
inputs == <<variant, parseAll, p12, doc>>

NoFile == [exists |-> FALSE, data |-> <<>>]
\* No other request is being handled.
\* No request's files are followed.
NoUploads == route = "none" /\ uploads = {}
\* useState(null): no appearance chosen, nothing placed.
NoVisual == [type |-> "null", filled |-> FALSE]
NoOverlay == [content |-> "null"]
\* The page as first rendered, with no handler running.
FreshPage ==
    /\ signatureMode = "digitalOnly" /\ visualSignature = NoVisual
    /\ overlaySignature = NoOverlay /\ placing = <<>> /\ forms = <<>>
Alone ==
    /\ now = 1 /\ disk = [t \in 1..MaxClock |-> NoFile] /\ reqs = <<>> /\ NoUploads
    /\ FreshPage

NoResponse == [status |-> 0, pdf |-> <<>>]
\* A catch block that sends nothing.
SilentError == [status |-> 0, pdf |-> <<>>]
ErrorResponse == [status |-> 500, pdf |-> <<>>]

Init ==
    /\ variant \in {"express", "netlify"}
    /\ parseAll \in BOOLEAN
    /\ p12 \in P12s
    /\ doc \in Docs
    /\ pc = "validate"
    /\ steps = <<>>
    /\ certInfo = [threw |-> FALSE, success |-> FALSE, error |-> ""]
    /\ placeholderPdf = <<>>
    /\ signedOrig = <<>>
    /\ signedPdf = <<>>
    /\ tsaUrl = PrimaryTsa
    /\ tsaLog = <<>>
    /\ tsaResp = <<>>
    /\ tsaOut = <<>>
    /\ ltv = NoLtv(<<>>)
    /\ encodeFails = FALSE
    /\ ocspOutcome = "none"
    /\ response = NoResponse
    /\ Alone

\* "Validasi sertifikat": a failed validation throws to the handler's catch,
\* which answers 500 with the message.
Validate ==
    /\ pc = "validate"
    /\ certInfo' = parseP12Certificate(p12)
    /\ steps' = Append(steps, "validate")
    /\ IF certInfo'.success /\ ~certInfo'.threw
       THEN pc' = "placeholder" /\ response' = response
       ELSE pc' = "done" /\ response' = ErrorResponse
    /\ UNCHANGED conc
    /\ UNCHANGED <<inputs, placeholderPdf, signedOrig, signedPdf, tsaUrl, tsaLog, tsaResp,
                   tsaOut, ltv, encodeFails, ocspOutcome>>

AddPlaceholder ==
    /\ pc = "placeholder"
    /\ steps' = Append(steps, "placeholder")
    /\ LET r == plainAddPlaceholder(doc, PlaceholderLen) IN
       IF r.threw
       THEN pc' = "done" /\ response' = ErrorResponse /\ placeholderPdf' = placeholderPdf
       ELSE pc' = "sign" /\ response' = response /\ placeholderPdf' = r.pdf
    /\ UNCHANGED conc
    /\ UNCHANGED <<inputs, certInfo, signedOrig, signedPdf, tsaUrl, tsaLog, tsaResp, tsaOut,
                   ltv, encodeFails, ocspOutcome>>

Sign ==
    /\ pc = "sign"
    /\ steps' = Append(steps, "sign")
    /\ \E r \in {signerSign(placeholderPdf, p12)} :
       IF r.threw
       THEN /\ pc' = "done" /\ response' = ErrorResponse
            /\ UNCHANGED <<signedOrig, signedPdf>>
       ELSE /\ pc' = "tsa" /\ response' = response
            /\ signedOrig' = r.pdf /\ signedPdf' = r.pdf
    /\ UNCHANGED conc
    /\ UNCHANGED <<inputs, certInfo, placeholderPdf, tsaUrl, tsaLog, tsaResp, tsaOut, ltv,
                   encodeFails, ocspOutcome>>

TsaStep(failed, responseBuffer) ==
    IF variant = "express" THEN TsaStepExpress(signedPdf, failed, responseBuffer, parseAll)
    ELSE TsaStepNetlify(signedPdf, failed, responseBuffer, parseAll)

AfterTsa(r) ==
    /\ steps' = Append(steps, "tsa")
    /\ signedPdf' = r.pdf
    /\ tsaOut' = r.pdf
    /\ IF r.fatal THEN pc' = "done" /\ response' = ErrorResponse
       ELSE pc' = "ltv" /\ response' = response

\* The TSA answers the running request with status 200; the rest of
\* addTimestampToPDF and the handler's assignment follow without a further await.
TsaOk ==
    /\ pc = "tsa"
    /\ Len(tsaLog) < MaxTsaRequests
    /\ extractSignatureFromPDF(signedPdf).found
    /\ \E resp \in TsaResponses :
          /\ tsaLog' = Append(tsaLog, [url |-> tsaUrl, ok |-> TRUE, imprint |-> MessageImprint(signedPdf)])
          /\ tsaResp' = resp
          /\ \E r \in {TsaStep(FALSE, resp)} : AfterTsa(r)
    /\ UNCHANGED conc
    /\ UNCHANGED <<inputs, certInfo, placeholderPdf, signedOrig, tsaUrl, ltv, encodeFails,
                   ocspOutcome>>

\* The running request fails (status other than 200, timeout, transport).
TsaFail ==
    /\ pc = "tsa"
    /\ Len(tsaLog) < MaxTsaRequests
    /\ extractSignatureFromPDF(signedPdf).found
    /\ tsaLog' = Append(tsaLog, [url |-> tsaUrl, ok |-> FALSE, imprint |-> MessageImprint(signedPdf)])
    /\ IF ShouldRetry(tsaUrl)
       THEN /\ tsaUrl' = AlternateTsa
            /\ UNCHANGED <<pc, steps, signedPdf, tsaOut, response>>
       ELSE /\ tsaUrl' = tsaUrl
            /\ \E r \in {TsaStep(TRUE, <<>>)} : AfterTsa(r)
    /\ UNCHANGED conc
    /\ UNCHANGED <<inputs, certInfo, placeholderPdf, signedOrig, tsaResp, ltv, encodeFails,
                   ocspOutcome>>

LtvStep(outcome, encodeThrows) ==
    IF variant = "express" THEN LtvStepExpress(signedPdf, p12.chain, outcome, encodeThrows)
    ELSE LtvStepNetlify(signedPdf, p12.chain, outcome, encodeThrows)

NeedsOcsp == Len(p12.chain) > 1 /\ ~IsSelfSigned(p12.chain[1])

\* The handler without the assignment signedPdf = embedDSS(...).
AfterLtvDropped(r, encodeThrows) ==
    /\ steps' = Append(steps, "ltv")
    /\ ltv' = r
    /\ encodeFails' = encodeThrows
    /\ signedPdf' = signedOrig
    /\ pc' = "respond"
AfterLtv(r, encodeThrows) ==
    /\ steps' = Append(steps, "ltv")
    /\ ltv' = r
    /\ encodeFails' = encodeThrows
    /\ signedPdf' = r.pdf
    /\ pc' = "respond"

\* The branches of the LTV step that call no requestOCSP.
LtvCertOnly ==
    /\ pc = "ltv"
    /\ ~NeedsOcsp
    /\ \E encodeThrows \in BOOLEAN :
          \E r \in {LtvStep("fail", encodeThrows)} : AfterLtv(r, encodeThrows)
    /\ UNCHANGED conc
    /\ UNCHANGED <<inputs, certInfo, placeholderPdf, signedOrig, tsaUrl, tsaLog, tsaResp,
                   tsaOut, ocspOutcome, response>>

\* The branch that calls requestOCSP, with the answer the responder gives if a
\* request is sent.
LtvWithIssuer ==
    /\ pc = "ltv"
    /\ NeedsOcsp
    /\ \E outcome \in OcspOutcomes, encodeThrows \in BOOLEAN :
          \E r \in {LtvStep(outcome, encodeThrows)} :
             /\ AfterLtv(r, encodeThrows)
             /\ ocspOutcome' = IF r.sent THEN outcome ELSE "none"
    /\ UNCHANGED conc
    /\ UNCHANGED <<inputs, certInfo, placeholderPdf, signedOrig, tsaUrl, tsaLog, tsaResp,
                   tsaOut, response>>

\* "Simpan & kirim" / the 200 answer of the Netlify function.
Respond ==
    /\ pc = "respond"
    /\ steps' = Append(steps, "respond")
    /\ response' = [status |-> 200, pdf |-> signedPdf]
    /\ pc' = "done"
    /\ UNCHANGED conc
    /\ UNCHANGED <<inputs, certInfo, placeholderPdf, signedOrig, signedPdf, tsaUrl, tsaLog,
                   tsaResp, tsaOut, ltv, encodeFails, ocspOutcome>>

Next == Validate \/ AddPlaceholder \/ Sign \/ TsaOk \/ TsaFail \/ LtvCertOnly
            \/ LtvWithIssuer \/ Respond

Spec == Init /\ [][Next]_vars

\* Every HTTP call returns or times out (axios timeout 15 s for the TSA, 10 s
\* for OCSP) and the event loop runs the continuation: a handler step that
\* can be taken is taken.
SpecLive == Init /\ [][Next]_vars /\ WF_vars(Next)

\* ------------------------------------------------------------------ embedDSS on any buffer
\* The LTV step and the answer of a request whose buffer after the timestamp
\* step is any of DssInputs: the signed document, and the same text without
\* the keyword xref, without /Type /Catalog, without both.
Without(pdf, k) == SelectSeq(pdf, LAMBDA t : t.k # k)
SignedPlain ==
    signerSign(plainAddPlaceholder(DocPlain, PlaceholderLen).pdf,
               [kind |-> "valid", chain |-> <<SelfSigned>>]).pdf
DssInputs ==
    {SignedPlain, Without(SignedPlain, "xref"), Without(SignedPlain, "/Type/Catalog"),
     Without(Without(SignedPlain, "xref"), "/Type/Catalog")}

InitDss ==
    /\ variant \in {"express", "netlify"}
    /\ parseAll = FALSE
    /\ p12 \in {q \in P12s : q.kind = "valid"}
    /\ doc = DocPlain
    /\ pc = "ltv"
    /\ steps = <<"validate", "placeholder", "sign", "tsa">>
    /\ certInfo = parseP12Certificate(p12)
    /\ placeholderPdf = plainAddPlaceholder(DocPlain, PlaceholderLen).pdf
    /\ signedOrig = SignedPlain
    /\ signedPdf \in DssInputs
    /\ tsaOut = signedPdf
    /\ tsaUrl = AlternateTsa
    /\ tsaLog = <<[url |-> PrimaryTsa, ok |-> FALSE, imprint |-> MessageImprint(SignedPlain)],
                 [url |-> AlternateTsa, ok |-> FALSE, imprint |-> MessageImprint(SignedPlain)]>>
    /\ tsaResp = <<>>
    /\ ltv = NoLtv(<<>>)
    /\ encodeFails = FALSE
    /\ ocspOutcome = "none"
    /\ response = NoResponse
    /\ Alone

NextDss == LtvCertOnly \/ LtvWithIssuer \/ Respond

SpecDss == InitDss /\ [][NextDss]_vars

\* ------------------------------------------------------------------ concurrent requests
\* The sign-pdf handler of the Express server for requests handled at the same
\* time by the one event loop: the synchronous part from the last await to
\* res.download, the file transfer, and the download callback.
Requests == {1, 2}
ConcP12s == {[kind |-> "valid", chain |-> <<SelfSigned>>], [kind |-> "badPassword", chain |-> <<>>]}
ConcDocs == {DocPlain, DocTwoPages}

NewRequest(d, q) ==
    [pc |-> "start", doc |-> d, p12 |-> q, signedPdf |-> <<>>, outPath |-> 0,
     response |-> NoResponse]

\* No single request is being followed.
Idle ==
    /\ variant = "express" /\ parseAll = FALSE /\ p12 = [kind |-> "none", chain |-> <<>>]
    /\ doc = <<>> /\ pc = "idle" /\ steps = <<>>
    /\ certInfo = [threw |-> FALSE, success |-> FALSE, error |-> ""]
    /\ placeholderPdf = <<>> /\ signedOrig = <<>> /\ signedPdf = <<>>
    /\ tsaUrl = PrimaryTsa /\ tsaLog = <<>> /\ tsaResp = <<>> /\ tsaOut = <<>>
    /\ ltv = NoLtv(<<>>) /\ encodeFails = FALSE /\ ocspOutcome = "none"
    /\ response = NoResponse

InitConc ==
    /\ Idle
    /\ now = 1
    /\ disk = [t \in 1..MaxClock |-> NoFile]
    /\ NoUploads /\ FreshPage
    /\ reqs \in [Requests -> {NewRequest(d, q) : d \in ConcDocs, q \in ConcP12s}]

\* A millisecond passes.
Tick ==
    /\ now < MaxClock
    /\ now' = now + 1
    /\ UNCHANGED <<pipeline, disk, reqs, files, frontend>>

\* What the handler computes between its last await and "Simpan & kirim".
SignedFor(d, q) ==
    LET ph == plainAddPlaceholder(d, PlaceholderLen) IN
    IF ~parseP12Certificate(q).success \/ ph.threw THEN Threw ELSE signerSign(ph.pdf, q)

\* outPath = `signed-${Date.now()}.pdf`; fs.writeFileSync(outPath, signedPdf);
\* res.download(outPath, ...) starts the transfer.  When anything threw, the
\* catch removes the uploads (outPath is still null) and answers 500.
SignAndSave(r) ==
    /\ reqs[r].pc = "start"
    /\ LET s == SignedFor(reqs[r].doc, reqs[r].p12) IN
       IF s.threw
       THEN /\ reqs' = [reqs EXCEPT ![r].pc = "done", ![r].response = ErrorResponse]
            /\ disk' = disk
       ELSE /\ reqs' = [reqs EXCEPT ![r].pc = "saved", ![r].signedPdf = s.pdf,
                                    ![r].outPath = now]
            /\ disk' = [disk EXCEPT ![now] = [exists |-> TRUE, data |-> s.pdf]]
    /\ UNCHANGED <<pipeline, now, files, frontend>>

\* res.download reads the file at outPath and sends it; a missing file is an
\* error handed to the callback, which sends nothing.
Stream(r) ==
    /\ reqs[r].pc = "saved"
    /\ reqs' = [reqs EXCEPT ![r].pc = "sent",
                            ![r].response =
                                IF disk[reqs[r].outPath].exists
                                THEN [status |-> 200, pdf |-> disk[reqs[r].outPath].data]
                                ELSE NoResponse]
    /\ UNCHANGED <<pipeline, now, disk, files, frontend>>

\* The download callback: unlink every cleanup file that exists, outPath included.
Cleanup(r) ==
    /\ reqs[r].pc = "sent"
    /\ disk' = [disk EXCEPT ![reqs[r].outPath] = NoFile]
    /\ reqs' = [reqs EXCEPT ![r].pc = "done"]
    /\ UNCHANGED <<pipeline, now, files, frontend>>

NextConc ==
    \/ Tick
    \/ \E r \in Requests : SignAndSave(r)
    \/ \E r \in Requests : Stream(r)
    \/ \E r \in Requests : Cleanup(r)

SpecConc == InitConc /\ [][NextConc]_vars

\* ------------------------------------------------------------------ embedDSS run again
\* embedDSS applied to a document and then again to what it returned.  An
\* object header "n g obj" with g other than 0 is the token "objg": the regex
\* (\d+)\s+0\s+obj of getNextObjectNumber does not match it.
DocReused ==
    <<Tok("%PDF", 0),
      Tok("obj", 1), Tok("/Type/Catalog", 0), Tok("endobj", 0),
      Tok("obj", 2), Tok("/Type/Page", 0), Tok("endobj", 0),
      Tok("objg", 3), Tok("/Type/Annot", 0), Tok("endobj", 0),
      Tok("xref", 0), Tok("trailer", 0), Tok("start", 0), Tok("xref", 0), Tok("%%EOF", 0)>>
RerunInputs == {SignedPlain, DocReused}

InitRerun ==
    /\ variant \in {"express", "netlify"}
    /\ parseAll = FALSE
    /\ p12 = [kind |-> "none", chain |-> <<>>]
    /\ doc = <<>>
    /\ pc = "ltv"
    /\ steps = <<>>
    /\ certInfo = [threw |-> FALSE, success |-> FALSE, error |-> ""]
    /\ placeholderPdf = <<>>
    /\ signedOrig = <<>>
    /\ signedPdf \in RerunInputs
    /\ tsaOut = signedPdf
    /\ tsaUrl = PrimaryTsa
    /\ tsaLog = <<>>
    /\ tsaResp = <<>>
    /\ ltv = NoLtv(signedPdf)
    /\ encodeFails = FALSE
    /\ ocspOutcome = "none"
    /\ response = NoResponse
    /\ Alone

\* One more call embedDSS(pdfBuffer, ocspResponses, certs) on the buffer the
\* last call returned; tsaOut keeps the buffer given to this call.
EmbedAgain ==
    /\ pc = "ltv"
    /\ Len(steps) < MaxRuns
    /\ \E ocspResponses \in {<<>>, <<OcspResponse>>}, certs \in Chains \cup {<<>>} :
          LET out == IF variant = "express"
                     THEN embedDSS(signedPdf, ocspResponses, certs, FALSE)
                     ELSE embedDSSInline(signedPdf, ocspResponses, certs, FALSE).pdf IN
          /\ ltv' = [NoLtv(out) EXCEPT !.called = TRUE, !.out = out,
                                       !.ocsp = ocspResponses, !.certs = certs]
          /\ signedPdf' = out
    /\ tsaOut' = signedPdf
    /\ steps' = Append(steps, "ltv")
    /\ UNCHANGED conc
    /\ UNCHANGED <<inputs, pc, certInfo, placeholderPdf, signedOrig, tsaUrl, tsaLog, tsaResp,
                   encodeFails, ocspOutcome, response>>

NextRerun == EmbedAgain

SpecRerun == InitRerun /\ [][NextRerun]_vars

\* ------------------------------------------------------------------ POST /api/check-signature
\* An uploaded PDF with a signature dictionary, n stream objects (compressed
\* or not, without any DSS marker) and then a compressed object stream whose
\* data holds the DSS marker; with marker "none" the last stream holds a page.
OtherStream(n, flate) ==
    <<Tok("obj", n)>> \o (IF flate THEN <<Tok("/Filter/FlateDecode", 0)>> ELSE <<>>)
        \o <<Tok("/Length", 1), Tok("stream", 0)>>
        \o (IF flate THEN Deflate(<<Tok("/Type/Page", 0)>>) ELSE <<Tok("/Type/Page", 0)>>)
        \o <<Tok("endstream", 0), Tok("endobj", 0)>>
MarkerStream(n, marker) ==
    <<Tok("obj", n), Tok("/Type/ObjStm", 0), Tok("/Filter/FlateDecode", 0), Tok("/Length", 1),
      Tok("stream", 0)>>
        \o Deflate(<<Tok(IF marker = "none" THEN "/Type/Page" ELSE marker, 7)>>)
        \o <<Tok("endstream", 0), Tok("endobj", 0)>>
UploadDoc(n, flate, marker, signed) ==
    <<Tok("%PDF", 0), Tok("obj", 1), Tok("/Type/Catalog", 0), Tok("endobj", 0),
      Tok("obj", 2), Tok(IF signed THEN "/Type/Sig" ELSE "/Type/Annot", 0), Tok("endobj", 0)>>
        \o Flatten([i \in 1..n |-> OtherStream(2 + i, flate)])
        \o MarkerStream(3 + n, marker)
        \o <<Tok("xref", 0), Tok("trailer", 0), Tok("start", 0), Tok("xref", 0), Tok("%%EOF", 0)>>
Markers == {"/Type/DSS", "/DSS", "none"}

\* Further uploads: a /DSS reference in the Catalog, a /Type /DSS object, a
\* /Type /VRI object, a stream whose header names /FlateDecode and whose data
\* is no zlib stream (alone, or followed by a compressed stream that holds the
\* marker), and an uncompressed stream that holds the marker.
CorruptStream(n) ==
    <<Tok("obj", n), Tok("/Filter/FlateDecode", 0), Tok("/Length", 1), Tok("stream", 0),
      Tok("data", 0), Tok("endstream", 0), Tok("endobj", 0)>>
DetectKinds == {"rawRef", "rawType", "vri", "corruptThenMarker", "corruptOnly", "plainMarker"}
DetectDoc(kind, signed) ==
    <<Tok("%PDF", 0), Tok("obj", 1), Tok("/Type/Catalog", 0)>>
        \o (IF kind = "rawRef" THEN <<Tok("/DSS", 9)>> ELSE <<>>)
        \o <<Tok("endobj", 0),
             Tok("obj", 2), Tok(IF signed THEN "/Type/Sig" ELSE "/Type/Annot", 0), Tok("endobj", 0)>>
        \o (IF kind = "rawType" THEN <<Tok("obj", 9), Tok("/Type/DSS", 0), Tok("endobj", 0)>>
            ELSE <<>>)
        \o (IF kind = "vri" THEN <<Tok("obj", 9), Tok("/Type/VRI", 0), Tok("endobj", 0)>>
            ELSE <<>>)
        \o (IF kind \in {"corruptThenMarker", "corruptOnly"} THEN CorruptStream(3) ELSE <<>>)
        \o (IF kind = "corruptThenMarker" THEN MarkerStream(4, "/Type/DSS") ELSE <<>>)
        \o (IF kind = "plainMarker"
            THEN <<Tok("obj", 3), Tok("/Length", 1), Tok("stream", 0), Tok("/Type/DSS", 0),
                   Tok("endstream", 0), Tok("endobj", 0)>>
            ELSE <<>>)
        \o <<Tok("xref", 0), Tok("trailer", 0), Tok("start", 0), Tok("xref", 0), Tok("%%EOF", 0)>>

InitDetect ==
    /\ \/ \E n \in 0..MaxStreamsBefore, flate \in BOOLEAN, marker \in Markers,
             signed \in BOOLEAN :
             /\ doc = UploadDoc(n, flate, marker, signed)
             /\ steps = <<n, marker>>
       \/ \E kind \in DetectKinds, signed \in BOOLEAN :
             /\ doc = DetectDoc(kind, signed)
             /\ steps = <<0, kind>>
    /\ variant = "express" /\ parseAll = FALSE /\ p12 = [kind |-> "none", chain |-> <<>>]
    /\ pc = "check"
    /\ certInfo = [threw |-> FALSE, success |-> FALSE, error |-> ""]
    /\ placeholderPdf = <<>> /\ signedOrig = <<>> /\ signedPdf = <<>>
    /\ tsaUrl = PrimaryTsa /\ tsaLog = <<>> /\ tsaResp = <<>> /\ tsaOut = <<>>
    /\ ltv = NoLtv(<<>>) /\ encodeFails = FALSE /\ ocspOutcome = "none"
    /\ response = NoResponse
    /\ Alone

\* The handler of POST /api/check-signature: res.json(checkPdfSignature(buf)).
CheckSignature ==
    /\ pc = "check"
    /\ response' = [status |-> 200, pdf |-> <<>>,
                    hasSig |-> checkPdfSignature(doc).hasSig,
                    hasLTV |-> checkPdfSignature(doc).hasLTV]
    /\ pc' = "done"
    /\ UNCHANGED conc
    /\ UNCHANGED <<inputs, steps, certInfo, placeholderPdf, signedOrig, signedPdf, tsaUrl,
                   tsaLog, tsaResp, tsaOut, ltv, encodeFails, ocspOutcome>>

NextDetect == CheckSignature

SpecDetect == InitDetect /\ [][NextDetect]_vars

\* ------------------------------------------------------------------ properties
Ran(step) == \E i \in 1..Len(steps) : steps[i] = step
TsaDone == Ran("tsa")
LtvDone == Ran("ltv")
Answered == pc = "done"

\* What a verifier reads in a buffer: the CMS in the first /Contents value
\* (bytes after the DER value are padding).
CmsOf(pdf) == FromDer(extractSignatureFromPDF(pdf).signature, FALSE)
DigestMatches(pdf) ==
    /\ extractSignatureFromPDF(pdf).found
    /\ CmsOf(pdf).ok
    /\ Sha256(RangeBytes(pdf, ByteRangeOf(pdf))) = CmsOf(pdf).v.md
HasTimestampAttr(pdf) ==
    /\ extractSignatureFromPDF(pdf).found
    /\ CmsOf(pdf).ok
    /\ \E i \in 1..Len(CmsOf(pdf).v.uas) : \E j \in 1..Len(CmsOf(pdf).v.uas[i]) :
          CmsOf(pdf).v.uas[i][j].oid = OidTimeStampToken

\* The indexes of the bytes of the /Contents value in a signed buffer.
ContentsSlot(pdf) == (ContentsMatch(pdf) + 2)..(HexRunEnd(pdf, ContentsMatch(pdf)) - 1)

\* C1: the buffer returned by a successful signing request has a /ByteRange
\* whose bytes digest to the message-digest attribute of the CMS in /Contents.
C1_FinalDigestMatches ==
    (Answered /\ response.status = 200) => DigestMatches(response.pdf)

\* C2: the timestamp step returns a buffer of the same length as the one
\* signer.sign produced, different from it only inside the /Contents value.
C2_TimestampKeepsLength ==
    TsaDone =>
        /\ Len(tsaOut) = Len(signedOrig)
        /\ \A i \in 1..Len(signedOrig) :
              i \notin ContentsSlot(signedOrig) => tsaOut[i] = signedOrig[i]

\* C3: a successful embedDSS only appends: its input is a prefix of its output
\* (up to the original trailer and beyond), nothing that existed is moved.
C3_DssOnlyAppends ==
    (LtvDone /\ ltv.called /\ ~ltv.threw /\ ltv.out # tsaOut) =>
        /\ SubSeq(ltv.out, 1, LastIndexOf(tsaOut, "trailer"))
              = SubSeq(tsaOut, 1, LastIndexOf(tsaOut, "trailer"))
        /\ IsPrefix(tsaOut, ltv.out)

\* C4: a failed request to the primary TSA is followed by exactly one request,
\* to the alternate TSA, and by none after it; a primary request that succeeds
\* is followed by none.  At most two TSA requests per signing request.
C4_OneFailover ==
    /\ Len(tsaLog) <= 2
    /\ Len(tsaLog) >= 1 => tsaLog[1].url = PrimaryTsa
    /\ Len(tsaLog) = 2 => ~tsaLog[1].ok /\ tsaLog[2].url = AlternateTsa
    /\ (TsaDone /\ ~tsaLog[1].ok) => Len(tsaLog) = 2
    /\ (Len(tsaLog) >= 1 /\ tsaLog[1].ok) => TsaDone /\ Len(tsaLog) = 1
C4_Witness ==
    TsaDone /\ Len(tsaLog) = 2 /\ ~tsaLog[1].ok /\ tsaLog[2].ok /\ tsaLog[2].url = AlternateTsa

BothTsaFailed == Len(tsaLog) >= 2 /\ ~tsaLog[1].ok /\ ~tsaLog[2].ok /\ tsaUrl = AlternateTsa

\* C5: when both TSA requests fail the step is not fatal: the buffer given to
\* the LTV step is the one signer.sign returned, without a timestamp attribute,
\* the LTV step runs and the request is answered with the signed PDF.
C5_TsaFailureNotFatal ==
    BothTsaFailed =>
        /\ TsaDone
        /\ tsaOut = signedOrig
        /\ ~HasTimestampAttr(tsaOut)
        /\ pc \in {"ltv", "respond", "done"}
        /\ pc \in {"respond", "done"} => LtvDone
        /\ Answered => response.status = 200 /\ response.pdf = signedPdf
C5_Witness ==
    BothTsaFailed /\ Answered /\ response.status = 200 /\ LtvDone /\ ltv.called

\* The CMS with the timestamp attribute that the step computed from the
\* response, <<>> when it computed none.
NewSignature ==
    IF variant = "express"
    THEN embedTimestampInSignature(extractSignatureFromPDF(signedOrig).signature,
                                   requestTimestampParse(tsaResp), parseAll)
    ELSE embedTimestampInline(extractSignatureFromPDF(signedOrig).signature,
                              requestTimestampParseInline(tsaResp), parseAll).pdf
NewSignatureTooLong ==
    /\ TsaDone
    /\ tsaResp # <<>>
    /\ HexLen(NewSignature) > HexLen(extractSignatureFromPDF(signedOrig).signature)

\* C6: when the CMS with the timestamp attribute is longer than the placeholder
\* the step returns the un-timestamped signed buffer.
C6_TooLongAbandoned ==
    NewSignatureTooLong => tsaOut = signedOrig /\ (Answered => response.status = 200)

\* C8: when an OCSP request was sent and failed, the request is not answered
\* with an error and embedDSS is called with the whole chain and no OCSP response.
C8_OcspFailureStillEmbeds ==
    (LtvDone /\ ocspOutcome \in {"fail", "non200"}) =>
        /\ ltv.called /\ ltv.certs = p12.chain /\ ltv.ocsp = <<>>
        /\ Answered => response.status = 200

\* C9: parseP12Certificate never throws; for a wrong password, corrupt bytes or
\* a container without certificate bag it returns success false, the request
\* is answered with an error and no PDF, and no later stage runs.
C9_BadCredentialStops ==
    /\ ~certInfo.threw
    /\ (p12.kind # "valid" /\ pc # "validate") =>
          /\ ~certInfo.success
          /\ Answered /\ response = ErrorResponse
          /\ steps = <<"validate">>
          /\ placeholderPdf = <<>> /\ signedPdf = <<>>
          /\ tsaLog = <<>> /\ ocspOutcome = "none" /\ ~ltv.called
C9_Witness ==
    p12.kind = "badPassword" /\ Answered /\ response.status = 500

\* What cannot complete in the embedDSS of the running variant: no xref keyword,
\* no /Type /Catalog to patch (the ltv-helper patches one, the Netlify function
\* patches none), or a step that throws.
CannotComplete ==
    \/ LastIndexOf(tsaOut, "xref") = 0
    \/ variant = "express" /\ IndexOf(tsaOut, "/Type/Catalog") = 0
    \/ encodeFails
HasDssObjects(pdf) == IndexOf(pdf, "/Type/DSS") # 0
HasDssReference(pdf) == IndexOf(pdf, "/DSS") # 0

\* C7: when DSS embedding cannot complete, the buffer after the LTV step is the
\* buffer given to it and the request answers with that buffer; a buffer that
\* differs from the one given holds the DSS objects (and, where the Catalog is
\* patched, the patch together with them).
C7_FailedDssKeepsBuffer ==
    LtvDone =>
        /\ (CannotComplete \/ ltv.threw) =>
              /\ ltv.pdf = tsaOut /\ signedPdf = tsaOut
              /\ ltv.called /\ ~ltv.threw => ltv.out = tsaOut
              /\ Answered => response = [status |-> 200, pdf |-> tsaOut]
        /\ HasDssReference(signedPdf) => HasDssObjects(signedPdf)
        /\ signedPdf # tsaOut => HasDssObjects(signedPdf)
C7_Witness ==
    /\ variant = "express" /\ LtvDone /\ ltv.called /\ ~encodeFails
    /\ IndexOf(tsaOut, "/Type/Catalog") # 0 /\ LastIndexOf(tsaOut, "xref") = 0
    /\ Answered /\ response = [status |-> 200, pdf |-> tsaOut]

\* C10: each request handled at the same time as another is answered with the
\* PDF signed from its own upload, and the output file it saved holds its own
\* PDF until it has been sent.
C10_RequestsIsolated ==
    \A r \in DOMAIN reqs :
        /\ reqs[r].pc = "saved" =>
              disk[reqs[r].outPath] = [exists |-> TRUE, data |-> reqs[r].signedPdf]
        /\ (reqs[r].pc \in {"sent", "done"} /\ reqs[r].outPath # 0) =>
              reqs[r].response = [status |-> 200, pdf |-> reqs[r].signedPdf]

\* The object headers of a buffer, of any generation, in file order.
Headers(pdf) == SelectSeq(pdf, LAMBDA t : t.k \in {"obj", "objg"})
\* The headers a call of embedDSS added: those of the block inserted before
\* the last xref of its input.
NewHeaders(in, out) ==
    LET a == Len(Headers(SubSeq(in, 1, LastIndexOf(in, "xref") - 1))) IN
    SubSeq(Headers(out), a + 1, a + Len(Headers(out)) - Len(Headers(in)))

\* C11: the object numbers a call of embedDSS assigns are greater than every
\* object number defined in its input, whatever the generation, and are
\* consecutive.
C11_FreshObjectNumbers ==
    (Len(steps) >= 1 /\ signedPdf # tsaOut) =>
        LET new == NewHeaders(tsaOut, signedPdf) IN
        /\ new # <<>>
        /\ \A i \in 1..Len(new) : \A j \in 1..Len(Headers(tsaOut)) :
              new[i].n > Headers(tsaOut)[j].n
        /\ \A i \in 1..(Len(new) - 1) : new[i + 1].n = new[i].n + 1

\* C12: the buffer a successful signing request returns makes
\* checkPdfSignature report hasSig.
C12_SignedBufferHasSig ==
    (Answered /\ response.status = 200) => checkPdfSignature(response.pdf).hasSig
C12_Witness ==
    /\ Answered /\ response.status = 200 /\ checkPdfSignature(response.pdf).hasSig
    /\ variant = "netlify" /\ Len(tsaOut) > Len(signedOrig) /\ signedPdf # tsaOut

\* C13: a buffer embedDSS returned changed makes checkPdfSignature report
\* hasLTV (and hasSig); so does the answer to a request with a self-signed
\* certificate without AIA, for which no OCSP request is sent.
C13_DssBufferHasLtv ==
    (LtvDone /\ ltv.called /\ ~ltv.threw /\ ltv.out # tsaOut) =>
        /\ checkPdfSignature(ltv.out).hasSig
        /\ checkPdfSignature(ltv.out).hasLTV
        /\ Answered => checkPdfSignature(response.pdf).hasLTV
C13_Witness ==
    /\ p12.kind = "valid" /\ p12.chain = <<SelfSigned>>
    /\ Answered /\ response.status = 200 /\ ~ltv.sent /\ ltv.ocsp = <<>>
    /\ ltv.out # tsaOut
    /\ checkPdfSignature(response.pdf).hasSig /\ checkPdfSignature(response.pdf).hasLTV

\* The DSS markers of a buffer lie only inside compressed stream data.
DssOnlyCompressed(pdf) ==
    /\ ~HasDssMarker(pdf)
    /\ \E i \in 1..Len(pdf) : pdf[i].k = "deflate" /\ HasDssMarker(pdf[i].d)

\* C14: a buffer with a signature marker whose only DSS marker is inside the
\* data of a /Filter /FlateDecode stream is reported with hasLTV, wherever
\* that stream stands.
C14_CompressedDssDetected ==
    (pc = "done" /\ HasSigMarker(doc) /\ DssOnlyCompressed(doc)) => response.hasLTV

\* The certificate's AIA extension has an OCSP access method with an http URI.
AiaHttpUri(cert) == cert.aia \in {"uri", "ia5"}

C16_DecisionTable ==
    (LtvDone /\ p12.kind = "valid") =>
        IF IsSelfSigned(p12.chain[1])
        THEN ~ltv.sent /\ ltv.called /\ ltv.ocsp = <<>> /\ ltv.certs = <<p12.chain[1]>>
        ELSE IF Len(p12.chain) > 1
        THEN /\ ltv.called /\ ltv.certs = <<p12.chain[1], p12.chain[2]>>
             /\ ltv.ocsp = (IF ocspOutcome = "ok" THEN <<OcspResponse>> ELSE <<>>)
        ELSE ~ltv.sent /\ ltv.called /\ ltv.ocsp = <<>> /\ ltv.certs = <<p12.chain[1]>>

\* C17: every signing request is eventually answered, and once, with a signed
\* PDF or an error: the answer given is never replaced, at most two TSA
\* requests and one OCSP request are sent.
C17_AnsweredOnce ==
    /\ <>(Answered /\ response.status \in {200, 500})
    /\ [][response # NoResponse => response' = response]_vars
    /\ [][ocspOutcome # "none" => ocspOutcome' = ocspOutcome]_vars
    /\ [](Len(tsaLog) <= 2)
C17_Witness ==
    /\ Answered /\ response.status = 200 /\ Len(tsaLog) = 2 /\ tsaLog[2].ok
    /\ ltv.sent /\ ocspOutcome = "fail" /\ steps[Len(steps)] = "respond"

\* The answer of the TSA has status granted (0) and holds a TimeStampToken.
TsaGranted(resp) ==
    /\ BlobParses(resp, TRUE)
    /\ resp[1].k = "respHdr"
    /\ resp[2].k = "status" /\ resp[2].n = 0
    /\ resp[1].n > 2
\* The TimeStampToken of a granted answer.
TokenOf(resp) == SubSeq(resp, 3, resp[1].n)
\* The values of the signatureTimeStampToken attributes of the CMS of a buffer.
EmbeddedTokens(pdf) ==
    {CmsOf(pdf).v.uas[ij[1]][ij[2]].body :
        ij \in {x \in (1..Len(CmsOf(pdf).v.uas)) \X (1..MaxTokenLen) :
                  /\ x[2] <= Len(CmsOf(pdf).v.uas[x[1]])
                  /\ CmsOf(pdf).v.uas[x[1]][x[2]].oid = OidTimeStampToken}}

\* C18: a signatureTimeStampToken attribute is in the CMS after the TSA step
\* only when the TSA answered with status granted and a token, and its value
\* is that token.
C18_AttributeOnlyWhenGranted ==
    (TsaDone /\ HasTimestampAttr(tsaOut)) =>
        /\ TsaGranted(tsaResp)
        /\ EmbeddedTokens(tsaOut) = {TokenOf(tsaResp)}

\* The signature value of the SignerInfo of the CMS in a signed buffer, as bytes.
SignatureValueBytes(pdf) == <<Hex("sv", CmsOf(pdf).v.sv, <<>>)>>

\* C19: the message imprint of every timestamp request is the SHA-256 hash of
\* the signature value of the SignerInfo, and of nothing else.
C19_ImprintOfSignatureValue ==
    \A i \in 1..Len(tsaLog) : tsaLog[i].imprint = Sha256(SignatureValueBytes(signedOrig))

\* The xref keywords that start a cross-reference table followed by a trailer
\* and a startxref line, and the last of them.
XrefTables(pdf) ==
    {i \in 1..Len(pdf) :
        /\ pdf[i].k = "xref"
        /\ (i = 1 \/ pdf[i - 1].k # "start")
        /\ \E t \in (i + 1)..Len(pdf) : \E x \in (t + 1)..(Len(pdf) - 1) :
              pdf[t].k = "trailer" /\ pdf[x].k = "start" /\ pdf[x + 1].k = "xref"}
LastXrefTable(pdf) == Max(XrefTables(pdf))
\* The object text the LTV step's embedDSS call built.
NewObjectText ==
    DssObjects(getNextObjectNumber(tsaOut), ltv.ocsp, ltv.certs, variant # "express").text
\* embedDSS was called on a buffer with a cross-reference table and returned a
\* buffer with the new objects.
DssEmbedded ==
    /\ LtvDone /\ ltv.called /\ ~ltv.threw
    /\ XrefTables(tsaOut) # {}
    /\ ltv.out # tsaOut

\* C20: on success the new object text is one block that ends immediately
\* before the xref keyword of the last cross-reference table, and the text
\* from that keyword on (the startxref keyword included) is as it was.
C20_BlockBeforeXrefTable ==
    DssEmbedded =>
        LET tail == SubSeq(tsaOut, LastXrefTable(tsaOut), Len(tsaOut))
            cut == Len(ltv.out) - Len(tail) IN
        /\ cut >= Len(NewObjectText)
        /\ SubSeq(ltv.out, cut + 1, Len(ltv.out)) = tail
        /\ SubSeq(ltv.out, cut - Len(NewObjectText) + 1, cut) = NewObjectText

\* The stages of one signing request in the order of the handler's code.
StageOrder == <<"validate", "placeholder", "sign", "tsa", "ltv", "respond">>
\* What the timestamp step and the LTV step return for a buffer given to them.
TsaStepOn(buf, failed, resp) ==
    IF variant = "express" THEN TsaStepExpress(buf, failed, resp, parseAll)
    ELSE TsaStepNetlify(buf, failed, resp, parseAll)
LtvStepOn(buf, outcome) ==
    IF variant = "express" THEN LtvStepExpress(buf, p12.chain, outcome, encodeFails)
    ELSE LtvStepNetlify(buf, p12.chain, outcome, encodeFails)

\* C21: the stages of a request run one after the other in the order of the
\* handler; each is given the buffer the stage before it returned (the buffer
\* that stage was given when it failed), and an OCSP request is sent only
\* after the timestamp step.
C21_StagesInOrder ==
    /\ IsPrefix(steps, StageOrder)
    /\ Ran("sign") =>
          /\ placeholderPdf = plainAddPlaceholder(doc, PlaceholderLen).pdf
          /\ signedOrig # <<>> => signedOrig = signerSign(placeholderPdf, p12).pdf
    /\ TsaDone =>
          tsaOut = TsaStepOn(signedOrig, tsaResp = <<>>, tsaResp).pdf
    /\ (TsaDone /\ tsaResp = <<>>) => tsaOut = signedOrig
    /\ LtvDone =>
          /\ \E outcome \in OcspOutcomes : ltv = LtvStepOn(tsaOut, outcome)
          /\ signedPdf = ltv.pdf
          /\ (ltv.threw \/ ~ltv.called) => ltv.pdf = tsaOut
    /\ (Answered /\ response.status = 200) =>
          steps = StageOrder /\ response.pdf = ltv.pdf
    /\ (ltv.sent \/ ocspOutcome # "none") => TsaDone
C21_Witness ==
    /\ Answered /\ response.status = 200 /\ steps = StageOrder
    /\ tsaResp # <<>> /\ tsaOut # signedOrig
    /\ ltv.sent /\ ltv.pdf # tsaOut /\ response.pdf = ltv.pdf

\* ------------------------------------------------------------------ timestamp embedding on one CMS
\* The CMS signer.sign wrote for DocPlain, without the padding of its slot.
SignedCms == ToDer(CmsOf(SignedPlain).v)

InitEmbed ==
    /\ variant \in {"express", "netlify"}
    /\ parseAll \in BOOLEAN
    /\ p12 = [kind |-> "none", chain |-> <<>>]
    /\ doc = <<>>
    /\ pc = "tsa"
    /\ steps = <<>>
    /\ certInfo = [threw |-> FALSE, success |-> FALSE, error |-> ""]
    /\ placeholderPdf = <<>>
    /\ signedOrig = SignedCms
    /\ signedPdf = SignedCms
    /\ tsaOut = SignedCms
    /\ tsaUrl = PrimaryTsa
    /\ tsaLog = <<>>
    /\ tsaResp = <<>>
    /\ ltv = NoLtv(<<>>)
    /\ encodeFails = FALSE
    /\ ocspOutcome = "none"
    /\ response = NoResponse
    /\ Alone

\* One more embedding on the CMS the last one returned (signedPdf holds the
\* CMS bytes, tsaOut the bytes given to this call); steps records whether the
\* call embedded ("ok") or gave up ("failed": the tsa-helper returns the bytes
\* it was given, the inline code throws).
EmbedTimestamp ==
    /\ pc = "tsa"
    /\ Len(steps) < MaxEmbeds
    /\ \E resp \in TsaResponses :
          \E r \in {IF variant = "express"
                    THEN Returned(embedTimestampInSignature(signedPdf,
                                      requestTimestampParse(resp), parseAll))
                    ELSE embedTimestampInline(signedPdf,
                                      requestTimestampParseInline(resp), parseAll)} :
             /\ tsaResp' = resp
             /\ signedPdf' = IF r.threw THEN signedPdf ELSE r.pdf
             /\ steps' = Append(steps, IF r.threw \/ r.pdf = signedPdf THEN "failed" ELSE "ok")
    /\ tsaOut' = signedPdf
    /\ UNCHANGED conc
    /\ UNCHANGED <<inputs, pc, certInfo, placeholderPdf, signedOrig, tsaUrl, tsaLog, ltv,
                   encodeFails, ocspOutcome, response>>

NextEmbed == EmbedTimestamp

SpecEmbed == InitEmbed /\ [][NextEmbed]_vars

\* The [1] unsignedAttrs elements of the first SignerInfo of a CMS, and the
\* signatureTimeStampToken attributes they hold.
UnsignedAttrsOf(cms) == FromDer(cms, FALSE).v.uas
TimestampAttrCount(cms) ==
    Cardinality({x \in (1..Len(UnsignedAttrsOf(cms))) \X (1..MaxEmbeds) :
                    /\ x[2] <= Len(UnsignedAttrsOf(cms)[x[1]])
                    /\ UnsignedAttrsOf(cms)[x[1]][x[2]].oid = OidTimeStampToken})
Embedded == Cardinality({i \in 1..Len(steps) : steps[i] = "ok"})

\* C22: after any number of embeddings the SignerInfo has at most one
\* unsignedAttrs element, and it holds one signatureTimeStampToken attribute
\* for each successful embedding.
C22_OneUnsignedAttrs ==
    /\ FromDer(signedPdf, FALSE).ok
    /\ Len(UnsignedAttrsOf(signedPdf)) <= 1
    /\ TimestampAttrCount(signedPdf) = Embedded

\* The stream objects of a buffer that are among its first StreamScanLimit and
\* show a DSS marker: in the inflated data when the dictionary names
\* /FlateDecode and the data inflates, in the data as it stands otherwise.
EarlyStreamWithDss(pdf) ==
    \E i \in StreamPositions(pdf) :
        /\ Cardinality({j \in StreamPositions(pdf) : j < i}) < StreamScanLimit
        /\ LET e == Min({j \in (i + 1)..Len(pdf) : pdf[j].k = "endstream"})
               h == Max({j \in 1..(i - 1) : pdf[j].k = "obj"})
               flate == \E j \in h..i : pdf[j].k = "/Filter/FlateDecode" IN
           IF flate
           THEN e = i + 2 /\ pdf[i + 1].k = "deflate" /\ HasDssMarker(pdf[i + 1].d)
           ELSE \E j \in (i + 1)..(e - 1) : pdf[j].k \in {"/Type/DSS", "/DSS"}
LtvEvidence(pdf) ==
    \/ \E i \in 1..Len(pdf) : pdf[i].k = "/DSS"
    \/ \E i \in 1..Len(pdf) : pdf[i].k = "/Type/DSS"
    \/ EarlyStreamWithDss(pdf)
    \/ \E i \in 1..Len(pdf) : pdf[i].k = "/Type/VRI"

\* C23: for a buffer with a signature marker hasLTV is true iff the raw text
\* has a /DSS reference, a /Type /DSS or a /Type /VRI, or one of the first 50
\* stream objects shows a DSS marker (inflated when FlateDecode, a stream that
\* does not inflate being skipped).
C23_LtvDecision ==
    (pc = "done" /\ response.hasSig) => (response.hasLTV <=> LtvEvidence(doc))
C23_Witness ==
    /\ pc = "done" /\ response.hasSig /\ response.hasLTV
    /\ doc = DetectDoc("corruptThenMarker", TRUE)

\* ------------------------------------------------------------------ decodePdfString
\* A string is a sequence of character codes.
Backslash == 92
LParen == 40
RParen == 41
LetterN == 110
LetterR == 114
LetterT == 116
LineFeed == 10
CarriageReturn == 13
HorizontalTab == 9
DigitZero == 48
IsDigitUpTo(c, top) == c \in DigitZero..(DigitZero + top)

\* /\\([0-3][0-7]{2})/ at the head of s.
OctalAtHead(s) ==
    /\ Len(s) >= 4 /\ s[1] = Backslash
    /\ IsDigitUpTo(s[2], 3) /\ IsDigitUpTo(s[3], 7) /\ IsDigitUpTo(s[4], 7)
\* parseInt(oct, 8)
ParseOctal(s) == 64 * (s[2] - DigitZero) + 8 * (s[3] - DigitZero) + (s[4] - DigitZero)

\* str.replace(/\\([0-3][0-7]{2})/g, (m, oct) => String.fromCharCode(parseInt(oct, 8)))
RECURSIVE ReplaceOctal(_)
ReplaceOctal(s) ==
    IF s = <<>> THEN <<>>
    ELSE IF OctalAtHead(s) THEN <<ParseOctal(s)>> \o ReplaceOctal(SubSeq(s, 5, Len(s)))
    ELSE <<s[1]>> \o ReplaceOctal(Tail(s))

\* str.replace(/\\c/g, out): every backslash followed by c, from left to right.
RECURSIVE ReplaceEscape(_, _, _)
ReplaceEscape(s, c, out) ==
    IF s = <<>> THEN <<>>
    ELSE IF Len(s) >= 2 /\ s[1] = Backslash /\ s[2] = c
    THEN <<out>> \o ReplaceEscape(SubSeq(s, 3, Len(s)), c, out)
    ELSE <<s[1]>> \o ReplaceEscape(Tail(s), c, out)

\* decodePdfString: the seven replace calls, each on the result of the one before.
decodePdfString(str) ==
    ReplaceEscape(
      ReplaceEscape(
        ReplaceEscape(
          ReplaceEscape(
            ReplaceEscape(
              ReplaceEscape(ReplaceOctal(str), LParen, LParen),
              RParen, RParen),
            Backslash, Backslash),
          LetterN, LineFeed),
        LetterR, CarriageReturn),
      LetterT, HorizontalTab)

\* The characters of the strings given to decodePdfString.
Alphabet == {Backslash, LetterN, LParen, DigitZero + 1, DigitZero + 3, DigitZero + 4}
RECURSIVE Strings(_)
Strings(n) ==
    IF n = 0 THEN {<<>>}
    ELSE Strings(n - 1) \cup {Append(s, c) : s \in {t \in Strings(n - 1) : Len(t) = n - 1},
                                             c \in Alphabet}

InitDecode ==
    /\ doc \in Strings(MaxStrLen)
    /\ steps = <<>>
    /\ variant = "express" /\ parseAll = FALSE /\ p12 = [kind |-> "none", chain |-> <<>>]
    /\ pc = "decode"
    /\ certInfo = [threw |-> FALSE, success |-> FALSE, error |-> ""]
    /\ placeholderPdf = <<>> /\ signedOrig = <<>> /\ signedPdf = <<>>
    /\ tsaUrl = PrimaryTsa /\ tsaLog = <<>> /\ tsaResp = <<>> /\ tsaOut = <<>>
    /\ ltv = NoLtv(<<>>) /\ encodeFails = FALSE /\ ocspOutcome = "none"
    /\ response = NoResponse
    /\ Alone

\* extract(regex): decodePdfString(match[1]); signedPdf holds the decoded string.
Decode ==
    /\ pc = "decode"
    /\ signedPdf' = decodePdfString(doc)
    /\ pc' = "done"
    /\ UNCHANGED conc
    /\ UNCHANGED <<inputs, steps, certInfo, placeholderPdf, signedOrig, tsaUrl, tsaLog,
                   tsaResp, tsaOut, ltv, encodeFails, ocspOutcome, response>>

NextDecode == Decode

SpecDecode == InitDecode /\ [][NextDecode]_vars

\* One pass from left to right: an escape sequence at the head is consumed and
\* gives one character, any other character is copied.
EscapeValue(c) ==
    CASE c = LParen -> LParen
      [] c = RParen -> RParen
      [] c = Backslash -> Backslash
      [] c = LetterN -> LineFeed
      [] c = LetterR -> CarriageReturn
      [] c = LetterT -> HorizontalTab
      [] OTHER -> 0
RECURSIVE SinglePass(_)
SinglePass(s) ==
    IF s = <<>> THEN <<>>
    ELSE IF OctalAtHead(s) THEN <<ParseOctal(s)>> \o SinglePass(SubSeq(s, 5, Len(s)))
    ELSE IF Len(s) >= 2 /\ s[1] = Backslash /\ EscapeValue(s[2]) # 0
    THEN <<EscapeValue(s[2])>> \o SinglePass(SubSeq(s, 3, Len(s)))
    ELSE <<s[1]>> \o SinglePass(Tail(s))

\* C24: decodePdfString gives what a single left-to-right pass gives, in which
\* the character an escape sequence produces is not read again.
C24_SinglePassDecoding ==
    pc = "done" => signedPdf = SinglePass(doc)

\* The entries of the Catalog definition that starts at token c, and the
\* object number of the last /Type /DSS dictionary of a buffer.
CatalogEntries(pdf, c) ==
    SubSeq(pdf, c, Min({j \in c..Len(pdf) : pdf[j].k = "endobj"}))
DssRefs(pdf, c) ==
    {j \in 1..Len(CatalogEntries(pdf, c)) : CatalogEntries(pdf, c)[j].k = "/DSS"}
AppendedDssNumber(pdf) == pdf[LastIndexOf(pdf, "/Type/DSS") - 1].n

\* C25: after a successful embedDSS of the ltv-helper the last Catalog
\* definition of the buffer holds /DSS n 0 R with n the number of the DSS
\* dictionary the call appended.
C25_CurrentCatalogHasDss ==
    (variant = "express" /\ DssEmbedded) =>
        LET c == LastIndexOf(ltv.out, "/Type/Catalog") IN
        \E j \in DssRefs(ltv.out, c) :
            CatalogEntries(ltv.out, c)[j].n = AppendedDssNumber(ltv.out)

\* C26: after any number of successive embedDSS calls of the ltv-helper every
\* Catalog dictionary of the buffer has at most one /DSS entry.
C26_OneDssEntryPerCatalog ==
    variant = "express" =>
        \A c \in Occurrences(signedPdf, "/Type/Catalog") :
            Cardinality(DssRefs(signedPdf, c)) <= 1

\* ------------------------------------------------------------------ a PDF that is already signed
\* The signature value of the signature the upload already carries.
EarlierSignatureValue == 2
EarlierCms ==
    PadEnd(ToDer([md |-> <<>>, sv |-> EarlierSignatureValue, uas |-> <<>>]), PlaceholderLen)
\* What pdf-lib saves for an upload that holds a signature: the signature
\* dictionary with its /ByteRange and its /Contents <hex> stands among the
\* objects.
DocSigned ==
    <<Tok("%PDF", 0),
      Tok("obj", 1), Tok("/Type/Catalog", 0), Tok("endobj", 0),
      Tok("obj", 2), Tok("/Type/Page", 0), Tok("endobj", 0),
      Tok("obj", 3), Tok("/Type/Sig", 0), Tok("/ByteRange", 0),
      Tok("num", 0), Tok("num", 9), Tok("num", 21), Tok("num", 7),
      Tok("/Contents", 0), Tok("<", 0)>> \o EarlierCms \o
    <<Tok(">", 0), Tok("endobj", 0),
      Tok("xref", 0), Tok("trailer", 0), Tok("start", 0), Tok("xref", 0), Tok("%%EOF", 0)>>

\* The sign-pdf handler on an upload that is already signed.
InitResign ==
    /\ variant \in {"express", "netlify"}
    /\ parseAll \in BOOLEAN
    /\ p12 \in P12s
    /\ doc = DocSigned
    /\ pc = "validate"
    /\ steps = <<>>
    /\ certInfo = [threw |-> FALSE, success |-> FALSE, error |-> ""]
    /\ placeholderPdf = <<>> /\ signedOrig = <<>> /\ signedPdf = <<>>
    /\ tsaUrl = PrimaryTsa /\ tsaLog = <<>> /\ tsaResp = <<>> /\ tsaOut = <<>>
    /\ ltv = NoLtv(<<>>) /\ encodeFails = FALSE /\ ocspOutcome = "none"
    /\ response = NoResponse
    /\ Alone

SpecResign == InitResign /\ [][Next]_vars

\* The /Contents <hex> values of a buffer in file order.
ContentsPositions(pdf) ==
    {i \in Occurrences(pdf, "/Contents") :
        /\ i + 3 <= Len(pdf)
        /\ pdf[i + 1].k = "<"
        /\ IsHex(pdf[i + 2])
        /\ HexRunEnd(pdf, i) <= Len(pdf)
        /\ pdf[HexRunEnd(pdf, i)].k = ">"}
\* The value of the signature this request created (the last one, in the
\* incremental update) and the values of all other signatures.
OwnContents(pdf) == HexRun(pdf, Max(ContentsPositions(pdf)))
OtherContents(pdf) ==
    {HexRun(pdf, i) : i \in ContentsPositions(pdf) \ {Max(ContentsPositions(pdf))}}

\* C27: in a buffer with several /Contents <hex> values the timestamp step
\* reads and timestamps the CMS of the signature this request created, and
\* leaves the value of every other signature as it was.
C27_OwnSignatureTimestamped ==
    (TsaDone /\ Cardinality(ContentsPositions(signedOrig)) > 1) =>
        /\ \A i \in 1..Len(tsaLog) : tsaLog[i].imprint = Sha256(OwnContents(signedOrig))
        /\ OtherContents(tsaOut) = OtherContents(signedOrig)
        /\ Cardinality(ContentsPositions(tsaOut)) = Cardinality(ContentsPositions(signedOrig))

\* ------------------------------------------------------------------ temporary files of a request
\* multer's diskStorage writes every file field of a request into uploads/
\* before the route's handler runs; the handler of /api/sign-pdf adds the
\* signed output file.
Routes == {"sign-pdf", "check-signature", "parse-certificate"}
\* upload.fields([pdf, certificate]), upload.single('pdf'), upload.single('certificate').
FieldsOf(r) ==
    IF r = "sign-pdf" THEN {"pdf", "certificate"}
    ELSE IF r = "check-signature" THEN {"pdf"}
    ELSE {"certificate"}
FileDocs == Docs \cup {DocSigned}
BadRequest == [status |-> 400, pdf |-> <<>>]

InitFiles ==
    /\ variant = "express" /\ parseAll = FALSE
    /\ p12 \in P12s
    /\ doc \in FileDocs
    /\ pc = "arrived" /\ steps = <<>>
    /\ certInfo = [threw |-> FALSE, success |-> FALSE, error |-> ""]
    /\ placeholderPdf = <<>> /\ signedOrig = <<>> /\ signedPdf = <<>>
    /\ tsaUrl = PrimaryTsa /\ tsaLog = <<>> /\ tsaResp = <<>> /\ tsaOut = <<>>
    /\ ltv = NoLtv(<<>>) /\ encodeFails = FALSE /\ ocspOutcome = "none"
    /\ response = NoResponse
    /\ now = 1 /\ disk = [t \in 1..MaxClock |-> NoFile] /\ reqs = <<>>
    /\ route \in Routes
    /\ uploads = {}
    /\ FreshPage

\* The multer middleware: each file field the request carries becomes a file
\* in uploads/; a request may carry any of the route's fields, or none.
Multer ==
    /\ pc = "arrived"
    /\ \E sent \in SUBSET FieldsOf(route) : uploads' = sent
    /\ pc' = "handler"
    /\ UNCHANGED <<now, disk, reqs, route, frontend>>
    /\ UNCHANGED <<inputs, steps, certInfo, placeholderPdf, signedOrig, signedPdf, tsaUrl,
                   tsaLog, tsaResp, tsaOut, ltv, encodeFails, ocspOutcome, response>>

\* POST /api/check-signature: 400 without a file; otherwise the file is read,
\* checked and unlinked before the answer, and the catch unlinks it when
\* reading threw.
CheckSignatureRoute ==
    /\ route = "check-signature" /\ pc = "handler"
    /\ \E readThrows \in BOOLEAN :
        IF "pdf" \notin uploads
        THEN /\ response' = BadRequest
             /\ uploads' = uploads
        ELSE IF readThrows
        THEN /\ response' = ErrorResponse
             /\ uploads' = uploads \ {"pdf"}
        ELSE /\ response' = [status |-> 200, pdf |-> <<>>,
                             hasSig |-> checkPdfSignature(doc).hasSig,
                             hasLTV |-> checkPdfSignature(doc).hasLTV]
             /\ uploads' = uploads \ {"pdf"}
    /\ pc' = "done"
    /\ UNCHANGED <<now, disk, reqs, route, frontend>>
    /\ UNCHANGED <<inputs, steps, certInfo, placeholderPdf, signedOrig, signedPdf, tsaUrl,
                   tsaLog, tsaResp, tsaOut, ltv, encodeFails, ocspOutcome>>

\* POST /api/parse-certificate: 400 without a file; otherwise the file is
\* read, parsed and unlinked, then 200 or 400 by result.success; the catch
\* unlinks it when reading threw.
ParseCertificateRoute ==
    /\ route = "parse-certificate" /\ pc = "handler"
    /\ \E readThrows \in BOOLEAN :
        IF "certificate" \notin uploads
        THEN /\ response' = BadRequest
             /\ uploads' = uploads
             /\ certInfo' = certInfo
        ELSE IF readThrows
        THEN /\ response' = ErrorResponse
             /\ uploads' = uploads \ {"certificate"}
             /\ certInfo' = certInfo
        ELSE /\ certInfo' = parseP12Certificate(p12)
             /\ uploads' = uploads \ {"certificate"}
             /\ response' = IF parseP12Certificate(p12).success
                            THEN [status |-> 200, pdf |-> <<>>]
                            ELSE BadRequest
    /\ pc' = "done"
    /\ UNCHANGED <<now, disk, reqs, route, frontend>>
    /\ UNCHANGED <<inputs, steps, placeholderPdf, signedOrig, signedPdf, tsaUrl,
                   tsaLog, tsaResp, tsaOut, ltv, encodeFails, ocspOutcome>>

\* POST /api/sign-pdf up to res.download: 400 unless both files are there;
\* cleanupFiles = [pdfFile.path, p12File.path]; when anything threw the catch
\* unlinks cleanupFiles and answers 500; otherwise the signed file is written
\* to outPath = signed-<now>.pdf and the transfer starts.
SignPdfRoute ==
    /\ route = "sign-pdf" /\ pc = "handler"
    /\ IF ~({"pdf", "certificate"} \subseteq uploads)
       THEN /\ response' = BadRequest
            /\ pc' = "done"
            /\ UNCHANGED <<uploads, disk, signedPdf>>
       ELSE LET s == SignedFor(doc, p12) IN
            IF s.threw
            THEN /\ response' = ErrorResponse
                 /\ pc' = "done"
                 /\ uploads' = uploads \ {"pdf", "certificate"}
                 /\ UNCHANGED <<disk, signedPdf>>
            ELSE /\ signedPdf' = s.pdf
                 /\ disk' = [disk EXCEPT ![now] = [exists |-> TRUE, data |-> s.pdf]]
                 /\ pc' = "saved"
                 /\ UNCHANGED <<uploads, response>>
    /\ UNCHANGED <<now, reqs, route, frontend>>
    /\ UNCHANGED <<inputs, steps, certInfo, placeholderPdf, signedOrig, tsaUrl,
                   tsaLog, tsaResp, tsaOut, ltv, encodeFails, ocspOutcome>>

\* res.download sends the file at outPath.
Download ==
    /\ pc = "saved"
    /\ response' = [status |-> 200, pdf |-> disk[now].data]
    /\ pc' = "sent"
    /\ UNCHANGED conc
    /\ UNCHANGED <<inputs, steps, certInfo, placeholderPdf, signedOrig, signedPdf, tsaUrl,
                   tsaLog, tsaResp, tsaOut, ltv, encodeFails, ocspOutcome>>

\* The download callback unlinks every cleanup file that exists: both uploads
\* and outPath.
DownloadCallback ==
    /\ pc = "sent"
    /\ uploads' = uploads \ {"pdf", "certificate"}
    /\ disk' = [disk EXCEPT ![now] = NoFile]
    /\ pc' = "done"
    /\ UNCHANGED <<now, reqs, route, frontend>>
    /\ UNCHANGED <<inputs, steps, certInfo, placeholderPdf, signedOrig, signedPdf, tsaUrl,
                   tsaLog, tsaResp, tsaOut, ltv, encodeFails, ocspOutcome, response>>

NextFiles ==
    \/ Multer
    \/ CheckSignatureRoute
    \/ ParseCertificateRoute
    \/ SignPdfRoute
    \/ Download
    \/ DownloadCallback

SpecFiles == InitFiles /\ [][NextFiles]_vars

\* The temporary files of the followed request that exist.
TemporaryFiles == uploads \cup {"out" : t \in {u \in 1..MaxClock : disk[u].exists}}

\* C28: once a request to /api/sign-pdf, /api/check-signature or
\* /api/parse-certificate has been answered and its handler has finished,
\* none of its temporary files (uploaded PDF, uploaded certificate, signed
\* output) exists any more, whether the answer was 200, 400 or 500.
C28_NoTemporaryFileLeft ==
    (pc = "done" /\ response.status \in {200, 400, 500}) => TemporaryFiles = {}

\* ------------------------------------------------------------------ frontend: placing the appearance
MaxPlacing == 2
MaxForms == 1
SignatureTypes == {"text", "qr", "draw", "upload"}

\* generateSignatureImage over the visualSignature of the render that started
\* the handler: null without a choice; a text is always rendered ('John Doe'
\* when empty); a QR code needs a value and its generation may fail; a drawing
\* is its dataUrl; an upload needs a file and reading it may fail.
generateSignatureImage(visual, ok) ==
    IF visual.type = "null" THEN "null"
    ELSE IF visual.type = "text" THEN "text"
    ELSE IF ~visual.filled THEN "null"
    ELSE IF visual.type = "draw" THEN "draw"
    ELSE IF ok THEN visual.type
    ELSE "null"

RemoveAt(q, i) == SubSeq(q, 1, i - 1) \o SubSeq(q, i + 1, Len(q))

InitFrontend ==
    /\ Idle
    /\ now = 1 /\ disk = [t \in 1..MaxClock |-> NoFile] /\ reqs = <<>> /\ NoUploads
    /\ FreshPage

\* Radio "Digital signature only".
SelectDigitalOnly ==
    /\ signatureMode' = "digitalOnly"
    /\ visualSignature' = NoVisual
    /\ overlaySignature' = NoOverlay
    /\ UNCHANGED <<placing, forms>>
    /\ UNCHANGED <<pipeline, now, disk, reqs, files>>

\* Radio "Add signature appearance".
SelectVisual ==
    /\ signatureMode' = "visual"
    /\ UNCHANGED <<visualSignature, overlaySignature, placing, forms>>
    /\ UNCHANGED <<pipeline, now, disk, reqs, files>>

\* The type radios of the panel, which is rendered in visual mode only.
ChooseType(t) ==
    /\ signatureMode = "visual"
    /\ visualSignature' = [type |-> t, filled |-> FALSE]
    /\ overlaySignature' = NoOverlay
    /\ UNCHANGED <<signatureMode, placing, forms>>
    /\ UNCHANGED <<pipeline, now, disk, reqs, files>>

\* Typing the text or the QR value, finishing a stroke, choosing an image file.
FillIn ==
    /\ signatureMode = "visual"
    /\ visualSignature.type # "null"
    /\ visualSignature' = [visualSignature EXCEPT !.filled = TRUE]
    /\ UNCHANGED <<signatureMode, overlaySignature, placing, forms>>
    /\ UNCHANGED <<pipeline, now, disk, reqs, files>>

\* "Reset Signature", a button of the panel.
ResetSignature ==
    /\ signatureMode = "visual"
    /\ visualSignature' = NoVisual
    /\ overlaySignature' = NoOverlay
    /\ UNCHANGED <<signatureMode, placing, forms>>
    /\ UNCHANGED <<pipeline, now, disk, reqs, files>>

\* The overlay's remove button, rendered whenever an overlay is shown.
RemoveOverlay ==
    /\ overlaySignature # NoOverlay
    /\ overlaySignature' = NoOverlay
    /\ UNCHANGED <<signatureMode, visualSignature, placing, forms>>
    /\ UNCHANGED <<pipeline, now, disk, reqs, files>>

\* handleCanvasDrop up to its await: returns unless the mode is visual and an
\* appearance is chosen, then starts generateSignatureImage().
handleCanvasDrop ==
    /\ signatureMode = "visual" /\ visualSignature # NoVisual
    /\ Len(placing) < MaxPlacing
    /\ placing' = Append(placing, [stage |-> "generating", visual |-> visualSignature,
                                   content |-> "null"])
    /\ UNCHANGED <<signatureMode, visualSignature, overlaySignature, forms>>
    /\ UNCHANGED <<pipeline, now, disk, reqs, files>>

\* handlePreviewTouchStart up to its await.  The previews exist in visual mode
\* once the chosen appearance has content; the handler itself tests no mode.
handlePreviewTouchStart ==
    /\ signatureMode = "visual" /\ visualSignature.type # "null" /\ visualSignature.filled
    /\ Len(placing) < MaxPlacing
    /\ placing' = Append(placing, [stage |-> "generating", visual |-> visualSignature,
                                   content |-> "null"])
    /\ UNCHANGED <<signatureMode, visualSignature, overlaySignature, forms>>
    /\ UNCHANGED <<pipeline, now, disk, reqs, files>>

\* The await of generateSignatureImage() resumes: without an image the handler
\* returns, otherwise it creates the Image and waits for its load event.
ImageGenerated(i) ==
    /\ i \in 1..Len(placing) /\ placing[i].stage = "generating"
    /\ \E ok \in BOOLEAN :
        LET imageUrl == generateSignatureImage(placing[i].visual, ok) IN
        placing' = IF imageUrl = "null" THEN RemoveAt(placing, i)
                   ELSE [placing EXCEPT ![i].stage = "loading", ![i].content = imageUrl]
    /\ UNCHANGED <<signatureMode, visualSignature, overlaySignature, forms>>
    /\ UNCHANGED <<pipeline, now, disk, reqs, files>>

\* img.onload of either handler: setOverlaySignature({content: imageUrl, ...}).
ImageLoaded(i) ==
    /\ i \in 1..Len(placing) /\ placing[i].stage = "loading"
    /\ overlaySignature' = [content |-> placing[i].content]
    /\ placing' = RemoveAt(placing, i)
    /\ UNCHANGED <<signatureMode, visualSignature, forms>>
    /\ UNCHANGED <<pipeline, now, disk, reqs, files>>

\* handleSignPdf with both files chosen: the button is disabled in visual mode
\* until an appearance is chosen and placed; the FormData gets a
\* signatureOverlay field when overlaySignature is set.
handleSignPdf ==
    /\ signatureMode = "visual" =>
            (visualSignature # NoVisual /\ overlaySignature # NoOverlay)
    /\ Len(forms) < MaxForms
    /\ forms' = Append(forms, [mode |-> signatureMode,
                               signatureOverlay |-> overlaySignature.content])
    /\ UNCHANGED <<signatureMode, visualSignature, overlaySignature, placing>>
    /\ UNCHANGED <<pipeline, now, disk, reqs, files>>

NextFrontend ==
    \/ SelectDigitalOnly
    \/ SelectVisual
    \/ \E t \in SignatureTypes : ChooseType(t)
    \/ FillIn
    \/ ResetSignature
    \/ RemoveOverlay
    \/ handleCanvasDrop
    \/ handlePreviewTouchStart
    \/ \E i \in 1..MaxPlacing : ImageGenerated(i)
    \/ \E i \in 1..MaxPlacing : ImageLoaded(i)
    \/ handleSignPdf

SpecFrontend == InitFrontend /\ [][NextFrontend]_vars

\* C29: in the frontend, whenever signatureMode is 'digitalOnly' the
\* overlaySignature state is null, and a FormData posted by handleSignPdf in
\* that mode has no signatureOverlay field, whatever the order of mode changes
\* and completions of the image generation and image load of a drop or touch.
C29_DigitalOnlyHasNoOverlay ==
    /\ signatureMode = "digitalOnly" => overlaySignature = NoOverlay
    /\ \A i \in 1..Len(forms) :
          forms[i].mode = "digitalOnly" => forms[i].signatureOverlay = "null"

\* ------------------------------------------------------------------ stream lengths of the DSS objects
\* Positions of the /Length entries of the stream objects that hold base64 text.
StreamLengths(pdf) ==
    {i \in Occurrences(pdf, "/Length") :
        /\ i + 2 <= Len(pdf)
        /\ pdf[i + 1].k = "stream"
        /\ pdf[i + 2].k = "data"}

\* C30: every certificate and OCSP stream object that embedDSS emitted
\* declares a /Length equal to the number of bytes between its stream and
\* endstream keywords, the length of the base64 text, in the ltv-helper and
\* in the Netlify function alike.
C30_LengthIsBase64Length ==
    \A i \in StreamLengths(ltv.out) : ltv.out[i].n = ltv.out[i + 2].n

====
